---- MODULE Spec2Model ----
(***************************************************************************)
(* Model of the factory-layout loader and validator of                     *)
(* src/factory/sr_factory_data_loader.py.                                  *)
(*                                                                         *)
(* JSON values are tagged records.  A raw JSON object ("obj") is the       *)
(* ordered list of (key, value) pairs the parser hands to                  *)
(* object_pairs_hook; a "dict" is what FailOnDuplicateDict makes of it.    *)
(* Python's None is JNull.                                                 *)
(*                                                                         *)
(* The data classes are read with the attribute names the loader uses      *)
(* (item, from_machine_id, dispatched_item, items, ...); they denote the   *)
(* fields the loader's constructor calls fill by position                  *)
(* (factories_data.py declares them as item_name, from_machine_ids, ...).  *)
(***************************************************************************)
EXTENDS Integers, Sequences, FiniteSets, TLC

VARIABLES
    pc,        \* position of load_factories_json
    doc,       \* the JSON text of the file being loaded (raw objects)
    gdd,       \* the GameDataDefinitions handed to the validations
    fd,        \* the FactoryDefinitions object: [sites, all_factory_outputs]
    err,       \* the exception that reached the caller, or NoError
    ran,       \* the steps of load_factories_json run so far, in order
    loads,     \* number of FactoryDefinitions.load calls made on fd
    jp,        \* a JsonPath object with the JsonPathNodes made for it
    ret,       \* the last call made on jp or on one of its nodes
    job,       \* the lists, request and available inputs srcalc.py was given
    stack,     \* the calls of walk_item_chain under way, the innermost last
    crafting_items,  \* srcalc.py's global of that name
    machine_nodes,   \* every Machine object made so far
    walked     \* how the outermost walk_item_chain ended, if it has

loader_vars == <<pc, doc, gdd, fd, err, ran, loads>>

path_vars == <<jp, ret>>

walk_vars == <<job, stack, crafting_items, machine_nodes, walked>>

vars == <<loader_vars, path_vars, walk_vars>>

----------------------------------------------------------------------------
(* JSON values *)

JNull == [t |-> "null"]
JStr(s) == [t |-> "str", s |-> s]
JInt(n) == [t |-> "int", n |-> n]
JList(l) == [t |-> "list", l |-> l]
JObj(p) == [t |-> "obj", p |-> p]
JDict(p) == [t |-> "dict", p |-> p]

IsNone(v) == v.t = "null"
IsStr(v) == v.t = "str"
IsInt(v) == v.t = "int"
IsList(v) == v.t = "list"
IsDict(v) == v.t = "dict"

Range(s) == {s[i] : i \in DOMAIN s}

----------------------------------------------------------------------------
(* Exceptions and results *)

FJE == "FactoriesJsonError"
AttributeError == "AttributeError"
KeyError == "KeyError"
StopIteration == "StopIteration"

NoError == [ok |-> TRUE]

\* raise kind(msg % args), rendered with the JSON path `path` (<<>>: no path)
Raise(kind, msg, args, path) ==
    [ok |-> FALSE, kind |-> kind, msg |-> msg, args |-> args, path |-> path]

\* normal return of `val`, leaving the path chain as `path`
Ok(val, path) == [ok |-> TRUE, val |-> val, path |-> path]

----------------------------------------------------------------------------
(* Strings *)

\* the strings of the model that consist of white space only
BlankStrings == {"", " "}

\* str.strip() on the strings of the model
Strip(s) == IF s \in BlankStrings THEN ""
            ELSE IF s = " tp1 " THEN "tp1" ELSE s

\* missing_string(s) for a str s
missing_string(s) == Len(Strip(s)) < 1

\* type(v) is not str or missing_string(v)
NotPopulatedStr(v) == ~IsStr(v) \/ missing_string(v.s)

\* type(v) is not int or v < lo
NotIntAtLeast(v, lo) == ~IsInt(v) \/ v.n < lo

----------------------------------------------------------------------------
(* dict access *)

HasKey(d, k) == \E i \in DOMAIN d.p : d.p[i][1] = k

\* d.get(k) of a dict
Get(d, k) ==
    IF HasKey(d, k)
    THEN d.p[CHOOSE i \in DOMAIN d.p : d.p[i][1] = k][2]
    ELSE JNull

Keys(d) == [i \in DOMAIN d.p |-> d.p[i][1]]

----------------------------------------------------------------------------
(* JsonPath / JsonPathNode as the loader uses them: every handle the loader *)
(* holds is on the chain from the root, so a handle is its depth d and the  *)
(* chain is the sequence of path ids.                                       *)

\* JsonPathNode.set_next on the handle at depth d
set_next(path, d, path_id) == SubSeq(path, 1, d) \o <<path_id>>

\* JsonPathNode.truncate on the handle at depth d
truncate(path, d) == SubSeq(path, 1, d)

\* JsonPathNode.get_path_array: the whole chain from the root
get_path_array(path) == path

----------------------------------------------------------------------------
(* JsonPath / JsonPathNode as objects.  A JsonPath is the record            *)
(* [nodes, held, alive]: nodes is every JsonPathNode made for it, in the    *)
(* order made, each [path_id, next] with next the index of the node it      *)
(* links to, or 0 for None; nodes[1] is JsonPath._path.  held says the      *)
(* caller still refers to the JsonPath; alive says the weak reference of    *)
(* the nodes still yields it.  A handle is the index of a node.             *)

ValueError == "ValueError"

\* None, as the value of JsonPathNode.next
NoNode == 0

\* JsonPathNode.__init__
NewJsonPathNode(path_id) == [path_id |-> path_id, next |-> NoNode]

\* JsonPath.__init__
NewJsonPath(path_id) ==
    [nodes |-> <<NewJsonPathNode(path_id)>>, held |-> TRUE, alive |-> TRUE]

\* JsonPath.get_path_head
get_path_head(json_path) == 1

\* a set_next that links the handle back to the head of the path
JsonPathNode_set_next_to_head(json_path, self, path_id) ==
    [json_path |-> [json_path EXCEPT !.nodes[self].next = get_path_head(json_path)],
     val |-> get_path_head(json_path), exc |-> NoError]

\* a set_next that links the new node below whatever the handle led to:
\* the new node is put at the end of the chain that starts at the handle
RECURSIVE LastFrom(_, _)
LastFrom(nodes, current) ==
    IF nodes[current].next = NoNode THEN current
    ELSE LastFrom(nodes, nodes[current].next)

JsonPathNode_set_next_at_end(json_path, self, path_id) ==
    LET node == Len(json_path.nodes) + 1
    IN  [json_path |->
             [json_path EXCEPT
                 !.nodes = Append([@ EXCEPT ![LastFrom(@, self)].next = node],
                                  NewJsonPathNode(path_id))],
         val |-> node, exc |-> NoError]

\* JsonPathNode.set_next: the JsonPath as the call leaves it, the node
\* returned and the exception raised, if any
JsonPathNode_set_next(json_path, self, path_id) ==
    IF json_path.alive
    THEN LET node == Len(json_path.nodes) + 1
         IN  [json_path |->
                  [json_path EXCEPT
                      !.nodes = Append([@ EXCEPT ![self].next = node],
                                       NewJsonPathNode(path_id))],
              val |-> node, exc |-> NoError]
    ELSE [json_path |-> json_path, val |-> NoNode,
          exc |-> Raise(ValueError, "JsonPathNode is being used when the containing JsonPath has been garbage collected.",
                        <<>>, <<>>)]

\* JsonPathNode.truncate
JsonPathNode_truncate(json_path, self) ==
    [json_path |-> [json_path EXCEPT !.nodes[self].next = NoNode],
     val |-> self, exc |-> NoError]

\* JsonPath.set_next
JsonPath_set_next(json_path, path_id) ==
    LET node == Len(json_path.nodes) + 1
    IN  [json_path |->
             [json_path EXCEPT
                 !.nodes = Append([@ EXCEPT ![get_path_head(json_path)].next = node],
                                  NewJsonPathNode(path_id))],
         val |-> node, exc |-> NoError]

RECURSIVE path_array_from(_, _, _)
\* JsonPath.get_path_array: while current is not None
path_array_from(nodes, current, path_array) ==
    IF current = NoNode THEN path_array
    ELSE path_array_from(nodes, nodes[current].next,
                         Append(path_array, nodes[current].path_id))

\* JsonPath.get_path_array
JsonPath_get_path_array(json_path) ==
    path_array_from(json_path.nodes, get_path_head(json_path), <<>>)

RECURSIVE Join(_, _)
\* sep.join(strings)
Join(sep, strings) ==
    IF strings = <<>> THEN ""
    ELSE IF Len(strings) = 1 THEN strings[1]
    ELSE strings[1] \o sep \o Join(sep, Tail(strings))

\* the separator of a path in string form
PathSeparator == "▹"

\* JsonPath.get_path_str
JsonPath_get_path_str(json_path) ==
    Join(PathSeparator, JsonPath_get_path_array(json_path))

\* a get_path_str that reads the JsonPath without asking whether it is
\* still there
JsonPathNode_get_path_str_unguarded(json_path, self) ==
    [val |-> JsonPath_get_path_str(json_path), exc |-> NoError]

\* JsonPathNode.get_path_str
JsonPathNode_get_path_str(json_path, self) ==
    IF json_path.alive
    THEN [val |-> JsonPath_get_path_str(json_path), exc |-> NoError]
    ELSE [val |-> "", exc |-> NoError]

\* JsonPathNode.get_path_array
JsonPathNode_get_path_array(json_path, self) ==
    IF json_path.alive
    THEN [val |-> JsonPath_get_path_array(json_path), exc |-> NoError]
    ELSE [val |-> <<>>, exc |-> NoError]

\* FactoriesJsonError.__init__ with a JsonPathNode: the message of the error
FactoriesJsonError(json_path, message, json_path_node) ==
    LET then(path_str) ==
            [val |-> IF path_str.exc.ok
                     THEN message \o "\nJSON path: " \o path_str.val
                     ELSE message,
             exc |-> path_str.exc]
    IN  then(JsonPathNode_get_path_str(json_path, json_path_node))

----------------------------------------------------------------------------
(* Sequences of results: a Python loop or comprehension that stops at the   *)
(* first raise                                                              *)

\* the list a comprehension builds: every element evaluated once, in order
ListOf(f) == f \o <<>>

AllOk(rs) == \A i \in DOMAIN rs : rs[i].ok

FirstRaise(rs) ==
    rs[CHOOSE i \in DOMAIN rs : ~rs[i].ok /\ \A j \in 1..(i - 1) : rs[j].ok]

Vals(rs) == ListOf([i \in DOMAIN rs |-> rs[i].val])

----------------------------------------------------------------------------
(* DuplicateKeyGuard *)

RECURSIVE SelectAt(_, _, _)
\* the elements of s at the indices in idx, in order, from index i on
SelectAt(s, idx, i) ==
    IF i > Len(s) THEN <<>>
    ELSE IF i \in idx THEN <<s[i]>> \o SelectAt(s, idx, i + 1)
    ELSE SelectAt(s, idx, i + 1)

\* [d for d,i in Counter([pair[0] for pair in ordered_pairs]).items() if i > 1]:
\* the keys that occur more than once, in order of first occurrence
Duplicates(ordered_pairs) ==
    LET keys == [i \in DOMAIN ordered_pairs |-> ordered_pairs[i][1]]
        count(k) == Cardinality({i \in DOMAIN keys : keys[i] = k})
        first == {i \in DOMAIN keys :
                    /\ \A j \in 1..(i - 1) : keys[j] # keys[i]
                    /\ count(keys[i]) > 1}
    IN  SelectAt(keys, first, 1)

\* a guard that reports the first repeated key only
FailOnFirstDuplicate(ordered_pairs) ==
    LET duplicates == Duplicates(ordered_pairs)
    IN  IF duplicates # <<>>
        THEN Raise(FJE, "Duplicate keys are not allowed in a JSON message.",
                   <<Head(duplicates)>>, <<>>)
        ELSE Ok(JDict(ordered_pairs), <<>>)

\* FailOnDuplicateDict.__init__
FailOnDuplicateDict(ordered_pairs) ==
    LET duplicates == Duplicates(ordered_pairs)
    IN  IF duplicates # <<>>
        THEN Raise(FJE, "Duplicate keys are not allowed in a JSON message.",
                   duplicates, <<>>)
        ELSE Ok(JDict(ordered_pairs), <<>>)

RECURSIVE json_load(_)
\* json.load(jsf, object_pairs_hook=FailOnDuplicateDict): the hook is called
\* for every JSON object once its members are parsed, innermost first
json_load(v) ==
    IF v.t = "obj" THEN
        LET rs == ListOf([i \in DOMAIN v.p |-> json_load(v.p[i][2])])
        IN  IF ~AllOk(rs) THEN FirstRaise(rs)
            ELSE FailOnDuplicateDict(
                    ListOf([i \in DOMAIN v.p |-> <<v.p[i][1], rs[i].val>>]))
    ELSE IF v.t = "list" THEN
        LET rs == ListOf([i \in DOMAIN v.l |-> json_load(v.l[i])])
        IN  IF ~AllOk(rs) THEN FirstRaise(rs)
            ELSE Ok(JList(Vals(rs)), <<>>)
    ELSE Ok(v, <<>>)

----------------------------------------------------------------------------
(* GraphBuilder *)

NoGet == Raise(AttributeError, "object has no attribute 'get'", <<>>, <<>>)
NoItems == Raise(AttributeError, "object has no attribute 'items'", <<>>, <<>>)

\* a validate_source_list that lets an empty list pass
validate_source_list_or_empty(path, description, source, value) ==
    IF /\ ~IsNone(value)
       /\ \/ ~IsList(value)
          \/ ~(\A i \in DOMAIN value.l :
                 IsStr(value.l[i]) /\ 0 < Len(Strip(value.l[i].s)))
    THEN Raise(FJE, "When source is specified, it must be a list of strings.",
               <<source, description>>, get_path_array(path))
    ELSE NoError

\* validate_source_list
validate_source_list(path, description, source, value) ==
    IF /\ ~IsNone(value)
       /\ \/ ~IsList(value)
          \/ Len(value.l) < 1
          \/ ~(\A i \in DOMAIN value.l :
                 IsStr(value.l[i]) /\ 0 < Len(Strip(value.l[i].s)))
    THEN Raise(FJE, "When source is specified, it must be a list of strings.",
               <<source, description>>, get_path_array(path))
    ELSE NoError

\* new_factory_machine_input
new_factory_machine_input(path, input_spec) ==
    IF ~IsDict(input_spec) THEN NoGet ELSE
    LET from_machine_id == Get(input_spec, "from_machine_id")
        from_factory_input_id == Get(input_spec, "from_factory_input_id")
        from_storage_id == Get(input_spec, "from_storage_id")
        rate_limit_ipm == Get(input_spec, "rate_limit_ipm")
        d == "factory machine input"
        v1 == validate_source_list(path, d, "from_machine_id", from_machine_id)
        v2 == validate_source_list(path, d, "from_factory_input_id",
                                   from_factory_input_id)
        v3 == validate_source_list(path, d, "from_storage_id", from_storage_id)
    IN  IF IsNone(from_machine_id) /\ IsNone(from_factory_input_id)
           /\ IsNone(from_storage_id)
        THEN Raise(FJE, "A factory machine input must specify at least one source.",
                   <<>>, get_path_array(path))
        ELSE IF NotIntAtLeast(rate_limit_ipm, 1)
        THEN Raise(FJE, "A factory machine input must specify the 'rate_limit_ipm'.",
                   <<>>, get_path_array(path))
        ELSE IF ~v1.ok THEN v1
        ELSE IF ~v2.ok THEN v2
        ELSE IF ~v3.ok THEN v3
        ELSE Ok([cls |-> "FactoryMachineInput",
                 from_machine_id |-> from_machine_id,
                 from_factory_input_id |-> from_factory_input_id,
                 from_storage_id |-> from_storage_id,
                 rate_limit_ipm |-> rate_limit_ipm.n,
                 json_path |-> get_path_array(path)], path)

\* [ctor(path, ii) for ii in l]
NoInputs == [t |-> "null"]
SomeInputs(l) == [t |-> "list", l |-> l]

\* a new_factory_machine without the test for 'variant' and 'inputs'
\* both being given: the variant wins
new_factory_machine_variant_first(path, d, machine_id, machine_spec) ==
    IF ~IsDict(machine_spec) THEN NoGet ELSE
    LET item == Get(machine_spec, "item")
        variant == Get(machine_spec, "variant")
        inputs == Get(machine_spec, "inputs")
    IN  IF NotPopulatedStr(item)
        THEN Raise(FJE, "A factory machine must define an 'item'.",
                   <<>>, get_path_array(path))
        ELSE IF IsNone(variant) /\ IsNone(inputs)
        THEN Raise(FJE, "A factory machine must define at least one of 'variant' or 'inputs'.",
                   <<>>, get_path_array(path))
        ELSE IF ~IsNone(variant)
        THEN Ok([machine_id |-> machine_id, item |-> item.s, variant |-> variant,
                 inputs |-> NoInputs, json_path |-> get_path_array(path)], path)
        ELSE IF ~IsList(inputs) \/ Len(inputs.l) < 1
        THEN Raise(FJE, "When 'inputs' is specified for a factory machine, is must be a non-empty list.",
                   <<>>, get_path_array(path))
        ELSE
        LET inputs_path == set_next(path, d, "inputs")
            rs == ListOf([i \in DOMAIN inputs.l |->
                     new_factory_machine_input(inputs_path, inputs.l[i])])
            path2 == truncate(inputs_path, d)
        IN  IF ~AllOk(rs) THEN FirstRaise(rs)
            ELSE Ok([machine_id |-> machine_id, item |-> item.s, variant |-> JNull,
                     inputs |-> SomeInputs(Vals(rs)),
                     json_path |-> get_path_array(path2)], path2)

\* new_factory_machine, for the handle at depth d
new_factory_machine(path, d, machine_id, machine_spec) ==
    IF ~IsDict(machine_spec) THEN NoGet ELSE
    LET item == Get(machine_spec, "item")
        variant == Get(machine_spec, "variant")
        inputs == Get(machine_spec, "inputs")
    IN  IF NotPopulatedStr(item)
        THEN Raise(FJE, "A factory machine must define an 'item'.",
                   <<>>, get_path_array(path))
        ELSE IF ~IsNone(variant) /\ ~IsNone(inputs)
        THEN Raise(FJE, "A factory machine may only define either 'variant' or 'inputs' but not both.",
                   <<>>, get_path_array(path))
        ELSE IF IsNone(variant) /\ IsNone(inputs)
        THEN Raise(FJE, "A factory machine must define at least one of 'variant' or 'inputs'.",
                   <<>>, get_path_array(path))
        ELSE IF ~IsNone(variant)
        THEN Ok([machine_id |-> machine_id, item |-> item.s, variant |-> variant,
                 inputs |-> NoInputs, json_path |-> get_path_array(path)], path)
        ELSE IF ~IsList(inputs) \/ Len(inputs.l) < 1
        THEN Raise(FJE, "When 'inputs' is specified for a factory machine, is must be a non-empty list.",
                   <<>>, get_path_array(path))
        ELSE
        LET inputs_path == set_next(path, d, "inputs")
            rs == ListOf([i \in DOMAIN inputs.l |->
                     new_factory_machine_input(inputs_path, inputs.l[i])])
            path2 == truncate(inputs_path, d)
        IN  IF ~AllOk(rs) THEN FirstRaise(rs)
            ELSE Ok([machine_id |-> machine_id, item |-> item.s, variant |-> JNull,
                     inputs |-> SomeInputs(Vals(rs)),
                     json_path |-> get_path_array(path2)], path2)

\* a new_factory_storage that refuses every storage fed from a storage
new_factory_storage_unfed(path, d, storage_id, storage_spec) ==
    IF ~IsDict(storage_spec) THEN NoGet ELSE
    LET items == Get(storage_spec, "items")
        num_stacks == Get(storage_spec, "num_stacks")
        inputs == Get(storage_spec, "inputs")
    IN  IF ~IsList(items) \/ Len(items.l) < 1
        THEN Raise(FJE, "A factory storage must define 'items' as a non-empty list.",
                   <<>>, get_path_array(path))
        ELSE IF \E i \in DOMAIN items.l : NotPopulatedStr(items.l[i])
        THEN Raise(FJE, "A factory storage must define 'items' as a list of non-empty strings.",
                   <<>>, get_path_array(path))
        ELSE IF NotIntAtLeast(num_stacks, 1)
        THEN Raise(FJE, "A factory storage must specify the 'num_stacks'.",
                   <<>>, get_path_array(path))
        ELSE IF ~IsList(inputs) \/ Len(inputs.l) < 1
        THEN Raise(FJE, "A factory storage must define 'inputs' as a non-empty list.",
                   <<>>, get_path_array(path))
        ELSE
        LET inputs_path == set_next(path, d, "inputs")
            rs == ListOf([i \in DOMAIN inputs.l |->
                     new_factory_machine_input(inputs_path, inputs.l[i])])
            path2 == truncate(inputs_path, d + 1)
        IN  IF ~AllOk(rs) THEN FirstRaise(rs)
            ELSE IF \E i \in DOMAIN rs : ~IsNone(rs[i].val.from_storage_id)
            THEN Raise(FJE, "A factory storage may not define itself as an input.",
                       <<>>, get_path_array(inputs_path))
            ELSE Ok([storage_id |-> storage_id,
                     items |-> [i \in DOMAIN items.l |-> items.l[i].s],
                     num_stacks |-> num_stacks.n,
                     inputs |-> Vals(rs),
                     json_path |-> get_path_array(path2)], path2)

\* a new_factory_storage that refuses inputs with a from_factory_input_id
new_factory_storage_without_factory_inputs(path, d, storage_id, storage_spec) ==
    IF ~IsDict(storage_spec) THEN NoGet ELSE
    LET items == Get(storage_spec, "items")
        num_stacks == Get(storage_spec, "num_stacks")
        inputs == Get(storage_spec, "inputs")
    IN  IF ~IsList(items) \/ Len(items.l) < 1
        THEN Raise(FJE, "A factory storage must define 'items' as a non-empty list.",
                   <<>>, get_path_array(path))
        ELSE IF \E i \in DOMAIN items.l : NotPopulatedStr(items.l[i])
        THEN Raise(FJE, "A factory storage must define 'items' as a list of non-empty strings.",
                   <<>>, get_path_array(path))
        ELSE IF NotIntAtLeast(num_stacks, 1)
        THEN Raise(FJE, "A factory storage must specify the 'num_stacks'.",
                   <<>>, get_path_array(path))
        ELSE IF ~IsList(inputs) \/ Len(inputs.l) < 1
        THEN Raise(FJE, "A factory storage must define 'inputs' as a non-empty list.",
                   <<>>, get_path_array(path))
        ELSE
        LET inputs_path == set_next(path, d, "inputs")
            rs == ListOf([i \in DOMAIN inputs.l |->
                     new_factory_machine_input(inputs_path, inputs.l[i])])
            path2 == truncate(inputs_path, d + 1)
        IN  IF ~AllOk(rs) THEN FirstRaise(rs)
            ELSE IF \E i \in DOMAIN rs : ~IsNone(rs[i].val.from_factory_input_id)
            THEN Raise(FJE, "A factory storage may not define a factory input as an input.",
                       <<>>, get_path_array(inputs_path))
            ELSE IF \E i \in DOMAIN rs :
                      /\ ~IsNone(rs[i].val.from_storage_id)
                      /\ JStr(storage_id) \in Range(rs[i].val.from_storage_id.l)
            THEN Raise(FJE, "A factory storage may not define itself as an input.",
                       <<>>, get_path_array(inputs_path))
            ELSE Ok([storage_id |-> storage_id,
                     items |-> [i \in DOMAIN items.l |-> items.l[i].s],
                     num_stacks |-> num_stacks.n,
                     inputs |-> Vals(rs),
                     json_path |-> get_path_array(path2)], path2)

\* new_factory_storage, for the handle at depth d
new_factory_storage(path, d, storage_id, storage_spec) ==
    IF ~IsDict(storage_spec) THEN NoGet ELSE
    LET items == Get(storage_spec, "items")
        num_stacks == Get(storage_spec, "num_stacks")
        inputs == Get(storage_spec, "inputs")
    IN  IF ~IsList(items) \/ Len(items.l) < 1
        THEN Raise(FJE, "A factory storage must define 'items' as a non-empty list.",
                   <<>>, get_path_array(path))
        ELSE IF \E i \in DOMAIN items.l : NotPopulatedStr(items.l[i])
        THEN Raise(FJE, "A factory storage must define 'items' as a list of non-empty strings.",
                   <<>>, get_path_array(path))
        ELSE IF NotIntAtLeast(num_stacks, 1)
        THEN Raise(FJE, "A factory storage must specify the 'num_stacks'.",
                   <<>>, get_path_array(path))
        ELSE IF ~IsList(inputs) \/ Len(inputs.l) < 1
        THEN Raise(FJE, "A factory storage must define 'inputs' as a non-empty list.",
                   <<>>, get_path_array(path))
        ELSE
        LET inputs_path == set_next(path, d, "inputs")
            rs == ListOf([i \in DOMAIN inputs.l |->
                     new_factory_machine_input(inputs_path, inputs.l[i])])
            \* inputs_path_node.truncate(): the handle one below the storage's
            path2 == truncate(inputs_path, d + 1)
        IN  IF ~AllOk(rs) THEN FirstRaise(rs)
            ELSE IF \E i \in DOMAIN rs :
                      /\ ~IsNone(rs[i].val.from_storage_id)
                      /\ JStr(storage_id) \in Range(rs[i].val.from_storage_id.l)
            THEN Raise(FJE, "A factory storage may not define itself as an input.",
                       <<>>, get_path_array(inputs_path))
            ELSE Ok([storage_id |-> storage_id,
                     items |-> [i \in DOMAIN items.l |-> items.l[i].s],
                     num_stacks |-> num_stacks.n,
                     inputs |-> Vals(rs),
                     json_path |-> get_path_array(path2)], path2)

\* a key that leaves the site out
make_factory_output_key_without_site(site_id, factory_id, factory_output_id) ==
    factory_id \o ";" \o factory_output_id

\* make_factory_output_key
make_factory_output_key(site_id, factory_id, factory_output_id) ==
    site_id \o ";" \o factory_id \o ";" \o factory_output_id

\* new_factory_input
new_factory_input(path, factory_input_id, input_spec) ==
    IF ~IsDict(input_spec) THEN NoGet ELSE
    LET site_id == Get(input_spec, "site_id")
        factory_id == Get(input_spec, "factory_id")
        factory_output_id == Get(input_spec, "factory_output_id")
    IN  IF NotPopulatedStr(site_id)
        THEN Raise(FJE, "A factory input must define a 'site_id'.",
                   <<>>, get_path_array(path))
        ELSE IF NotPopulatedStr(factory_id)
        THEN Raise(FJE, "A factory input must define a 'factory_id'.",
                   <<>>, get_path_array(path))
        ELSE IF NotPopulatedStr(factory_output_id)
        THEN Raise(FJE, "A factory input must define a 'factory_output_id'.",
                   <<>>, get_path_array(path))
        ELSE Ok([factory_input_id |-> factory_input_id,
                 site_id |-> site_id.s,
                 factory_id |-> factory_id.s,
                 factory_output_id |-> factory_output_id.s,
                 json_path |-> get_path_array(path)], path)

\* a key made of the input's own id in place of the output's id
get_output_key_of_input_id(factory_input) ==
    make_factory_output_key(factory_input.site_id, factory_input.factory_id,
                            factory_input.factory_input_id)

\* FactoryInput.get_output_key
get_output_key(factory_input) ==
    make_factory_output_key(factory_input.site_id, factory_input.factory_id,
                            factory_input.factory_output_id)

\* new_factory_output_source
new_factory_output_source(path, source_spec) ==
    IF ~IsDict(source_spec) THEN NoGet ELSE
    LET from_machine_id == Get(source_spec, "from_machine_id")
        from_storage_id == Get(source_spec, "from_storage_id")
        rate_limit_ipm == Get(source_spec, "rate_limit_ipm")
        d == "factory output source"
        v1 == validate_source_list(path, d, "from_machine_id", from_machine_id)
        v2 == validate_source_list(path, d, "from_storage_id", from_storage_id)
    IN  IF IsNone(from_machine_id) /\ IsNone(from_storage_id)
        THEN Raise(FJE, "A factory output source must specify at least one source.",
                   <<>>, get_path_array(path))
        ELSE IF NotIntAtLeast(rate_limit_ipm, 1)
        THEN Raise(FJE, "A factory output source must define 'rate_limit_ipm'.",
                   <<>>, get_path_array(path))
        ELSE IF ~v1.ok THEN v1
        ELSE IF ~v2.ok THEN v2
        ELSE Ok([cls |-> "FactoryOutputSource",
                 from_machine_id |-> from_machine_id,
                 from_storage_id |-> from_storage_id,
                 rate_limit_ipm |-> rate_limit_ipm.n,
                 json_path |-> get_path_array(path)], path)

\* new_factory_output, for the handle at depth d
new_factory_output(path, d, factory_output_id, output_spec) ==
    IF ~IsDict(output_spec) THEN NoGet ELSE
    LET dispatched_item == Get(output_spec, "dispatched_item")
        rate_limit_ipm == Get(output_spec, "rate_limit_ipm")
        sources == Get(output_spec, "sources")
    IN  IF NotPopulatedStr(dispatched_item)
        THEN Raise(FJE, "A factory output must define a 'dispatched_item'.",
                   <<>>, get_path_array(path))
        ELSE IF NotIntAtLeast(rate_limit_ipm, 1)
        THEN Raise(FJE, "A factory output must define a 'rate_limit_ipm'.",
                   <<>>, get_path_array(path))
        ELSE IF ~IsList(sources) \/ Len(sources.l) < 1
        THEN Raise(FJE, "A factory output must define 'sources' as a non-empty list.",
                   <<>>, get_path_array(path))
        ELSE
        LET source_path == set_next(path, d, "sources")
            rs == ListOf([i \in DOMAIN sources.l |->
                     new_factory_output_source(source_path, sources.l[i])])
            \* source_path_node.truncate(): the handle one below the output's
            path2 == truncate(source_path, d + 1)
        IN  IF ~AllOk(rs) THEN FirstRaise(rs)
            ELSE Ok([dispatched_item |-> dispatched_item.s,
                     factory_output_id |-> factory_output_id,
                     rate_limit_ipm |-> rate_limit_ipm.n,
                     sources |-> Vals(rs),
                     json_path |-> get_path_array(path2)], path2)

\* Factory.add_machine, add_input, add_output, add_storage; Site.add_factory;
\* FactoryDefinitions.add_site
add_machine(factory_machines, machine) == Append(factory_machines, machine)
add_input(factory_inputs, factory_input) == Append(factory_inputs, factory_input)
add_output(factory_outputs, factory_output) == Append(factory_outputs, factory_output)
add_storage(factory_storage, storage) == Append(factory_storage, storage)
\* an add_factory that keeps the first factory of a site only
add_factory_once(factories, factory) ==
    IF factories = <<>> THEN Append(factories, factory) ELSE factories

add_factory(factories, factory) == Append(factories, factory)
add_site(sites, site) == Append(sites, site)

RECURSIVE machines_loop(_, _, _, _, _)
\* new_factory: for k,v in machines.items(), from the i-th pair on;
\* d is the depth of machines_path_node
machines_loop(path, d, pairs, i, acc) ==
    IF i > Len(pairs) THEN Ok(acc, path) ELSE
    LET k == pairs[i][1]
        v == pairs[i][2]
        \* the rest of the loop body, given what the constructor returned
        then(r) ==
            IF ~r.ok THEN r
            ELSE machines_loop(truncate(r.path, d), d, pairs, i + 1,
                               add_machine(acc, r.val))
    IN  IF missing_string(k)
        THEN Raise(FJE, "JSON mandatory machine ID entry invalid.",
                   <<k>>, get_path_array(path))
        ELSE then(new_factory_machine(set_next(path, d, k), d + 1, k, v))

RECURSIVE inputs_loop_by_factory_id(_, _, _, _, _, _, _)
\* a loop over the factory inputs that compares the factory_id only
inputs_loop_by_factory_id(path, d, site_id, factory_id, pairs, i, acc) ==
    IF i > Len(pairs) THEN Ok(acc, path) ELSE
    LET k == pairs[i][1]
        v == pairs[i][2]
        then(r) ==
            IF ~r.ok THEN r
            ELSE IF factory_id = r.val.factory_id
            THEN Raise(FJE, "Factory input specifies a connection to an output within it's own factory.",
                       <<r.val.factory_input_id>>, get_path_array(r.path))
            ELSE inputs_loop_by_factory_id(truncate(r.path, d), d, site_id,
                                           factory_id, pairs, i + 1,
                                           add_input(acc, r.val))
    IN  IF missing_string(k)
        THEN Raise(FJE, "JSON mandatory factory input ID entry invalid.",
                   <<k>>, get_path_array(path))
        ELSE then(new_factory_input(set_next(path, d, k), k, v))

RECURSIVE inputs_loop(_, _, _, _, _, _, _)
\* new_factory: for k,v in factory_inputs.items()
inputs_loop(path, d, site_id, factory_id, pairs, i, acc) ==
    IF i > Len(pairs) THEN Ok(acc, path) ELSE
    LET k == pairs[i][1]
        v == pairs[i][2]
        \* the rest of the loop body, given what new_factory_input returned
        then(r) ==
            IF ~r.ok THEN r
            ELSE IF factory_id = r.val.factory_id /\ site_id = r.val.site_id
            THEN Raise(FJE, "Factory input specifies a connection to an output within it's own factory.",
                       <<r.val.factory_input_id>>, get_path_array(r.path))
            ELSE inputs_loop(truncate(r.path, d), d, site_id, factory_id, pairs,
                             i + 1, add_input(acc, r.val))
    IN  IF missing_string(k)
        THEN Raise(FJE, "JSON mandatory factory input ID entry invalid.",
                   <<k>>, get_path_array(path))
        ELSE then(new_factory_input(set_next(path, d, k), k, v))

RECURSIVE outputs_loop(_, _, _, _, _)
\* new_factory: for k,v in factory_outputs.items()
outputs_loop(path, d, pairs, i, acc) ==
    IF i > Len(pairs) THEN Ok(acc, path) ELSE
    LET k == pairs[i][1]
        v == pairs[i][2]
        \* the rest of the loop body, given what the constructor returned
        then(r) ==
            IF ~r.ok THEN r
            ELSE outputs_loop(truncate(r.path, d), d, pairs, i + 1,
                              add_output(acc, r.val))
    IN  IF missing_string(k)
        THEN Raise(FJE, "JSON mandatory factory output ID entry invalid.",
                   <<k>>, get_path_array(path))
        ELSE then(new_factory_output(set_next(path, d, k), d + 1, k, v))

RECURSIVE storage_loop(_, _, _, _, _)
\* new_factory: for k,v in factory_storage.items()
storage_loop(path, d, pairs, i, acc) ==
    IF i > Len(pairs) THEN Ok(acc, path) ELSE
    LET k == pairs[i][1]
        v == pairs[i][2]
        \* the rest of the loop body, given what the constructor returned
        then(r) ==
            IF ~r.ok THEN r
            ELSE storage_loop(truncate(r.path, d), d, pairs, i + 1,
                              add_storage(acc, r.val))
    IN  IF missing_string(k)
        THEN Raise(FJE, "JSON mandatory factory storage ID entry invalid.",
                   <<k>>, get_path_array(path))
        ELSE then(new_factory_storage(set_next(path, d, k), d + 1, k, v))

\* a new_factory that reads an optional section of another type than dict
\* as a section left out
new_factory_skipping_sections(path, d, site_id, factory_id, factory_values) ==
    IF ~IsDict(factory_values) THEN NoGet ELSE
    LET purpose == Get(factory_values, "purpose")
        machines == Get(factory_values, "machines")
        factory_inputs == Get(factory_values, "inputs")
        factory_outputs == Get(factory_values, "outputs")
        factory_storage == Get(factory_values, "storage")
        json_path == get_path_array(path)
        after_storage(mr, ir, or, sr) ==
            IF ~sr.ok THEN sr
            ELSE Ok([site_id |-> site_id,
                     factory_id |-> factory_id,
                     purpose |-> purpose.s,
                     json_path |-> json_path,
                     factory_machines |-> mr.val,
                     factory_inputs |-> ir.val,
                     factory_outputs |-> or.val,
                     factory_storage |-> sr.val], sr.path)
        after_outputs(mr, ir, or) ==
            IF ~or.ok THEN or
            ELSE after_storage(mr, ir, or,
                 IF ~IsDict(factory_storage) THEN Ok(<<>>, or.path)
                 ELSE IF ~IsDict(factory_storage)
                 THEN Raise(FJE, "JSON optional entry value isn't a valid dict, for value of entry 'storage'.",
                            <<>>, get_path_array(or.path))
                 ELSE storage_loop(set_next(or.path, d, "storage"), d + 1,
                                   factory_storage.p, 1, <<>>))
        after_inputs(mr, ir) ==
            IF ~ir.ok THEN ir
            ELSE after_outputs(mr, ir,
                 IF ~IsDict(factory_outputs) THEN Ok(<<>>, ir.path)
                 ELSE IF ~IsDict(factory_outputs)
                 THEN Raise(FJE, "JSON optional entry value isn't a valid dict, for value of entry 'outputs'.",
                            <<>>, get_path_array(ir.path))
                 ELSE outputs_loop(set_next(ir.path, d, "outputs"), d + 1,
                                   factory_outputs.p, 1, <<>>))
        inputs_section(p1) ==
            IF ~IsDict(factory_inputs) THEN Ok(<<>>, p1)
            ELSE IF ~IsDict(factory_inputs)
            THEN Raise(FJE, "JSON optional entry value isn't a valid dict, for value of entry 'inputs'.",
                       <<>>, get_path_array(p1))
            ELSE inputs_loop(set_next(p1, d, "inputs"), d + 1, site_id,
                             factory_id, factory_inputs.p, 1, <<>>)
        after_machines(mr) ==
            IF ~mr.ok THEN mr
            ELSE after_inputs(mr, inputs_section(truncate(mr.path, d)))
    IN  IF NotPopulatedStr(purpose)
        THEN Raise(FJE, "JSON mandatory entry missing or not a populated string: 'purpose'.",
                   <<>>, get_path_array(path))
        ELSE IF ~IsDict(machines)
        THEN Raise(FJE, "JSON mandatory entry missing or not a valid dict: 'machines'.",
                   <<>>, get_path_array(path))
        ELSE after_machines(machines_loop(set_next(path, d, "machines"), d + 1,
                                          machines.p, 1, <<>>))

\* new_factory, for the handle at depth d; site_id is site.site_id
new_factory(path, d, site_id, factory_id, factory_values) ==
    IF ~IsDict(factory_values) THEN NoGet ELSE
    LET purpose == Get(factory_values, "purpose")
        machines == Get(factory_values, "machines")
        factory_inputs == Get(factory_values, "inputs")
        factory_outputs == Get(factory_values, "outputs")
        factory_storage == Get(factory_values, "storage")
        json_path == get_path_array(path)
        \* the storage section, given the machines, inputs and outputs built
        after_storage(mr, ir, or, sr) ==
            IF ~sr.ok THEN sr
            ELSE Ok([site_id |-> site_id,
                     factory_id |-> factory_id,
                     purpose |-> purpose.s,
                     json_path |-> json_path,
                     factory_machines |-> mr.val,
                     factory_inputs |-> ir.val,
                     factory_outputs |-> or.val,
                     factory_storage |-> sr.val], sr.path)
        after_outputs(mr, ir, or) ==
            IF ~or.ok THEN or
            ELSE after_storage(mr, ir, or,
                 IF IsNone(factory_storage) THEN Ok(<<>>, or.path)
                 ELSE IF ~IsDict(factory_storage)
                 THEN Raise(FJE, "JSON optional entry value isn't a valid dict, for value of entry 'storage'.",
                            <<>>, get_path_array(or.path))
                 ELSE storage_loop(set_next(or.path, d, "storage"), d + 1,
                                   factory_storage.p, 1, <<>>))
        after_inputs(mr, ir) ==
            IF ~ir.ok THEN ir
            ELSE after_outputs(mr, ir,
                 IF IsNone(factory_outputs) THEN Ok(<<>>, ir.path)
                 ELSE IF ~IsDict(factory_outputs)
                 THEN Raise(FJE, "JSON optional entry value isn't a valid dict, for value of entry 'outputs'.",
                            <<>>, get_path_array(ir.path))
                 ELSE outputs_loop(set_next(ir.path, d, "outputs"), d + 1,
                                   factory_outputs.p, 1, <<>>))
        \* p1: path_node.truncate() once the machines are done
        inputs_section(p1) ==
            IF IsNone(factory_inputs) THEN Ok(<<>>, p1)
            ELSE IF ~IsDict(factory_inputs)
            THEN Raise(FJE, "JSON optional entry value isn't a valid dict, for value of entry 'inputs'.",
                       <<>>, get_path_array(p1))
            ELSE inputs_loop(set_next(p1, d, "inputs"), d + 1, site_id,
                             factory_id, factory_inputs.p, 1, <<>>)
        after_machines(mr) ==
            IF ~mr.ok THEN mr
            ELSE after_inputs(mr, inputs_section(truncate(mr.path, d)))
    IN  IF NotPopulatedStr(purpose)
        THEN Raise(FJE, "JSON mandatory entry missing or not a populated string: 'purpose'.",
                   <<>>, get_path_array(path))
        ELSE IF ~IsDict(machines)
        THEN Raise(FJE, "JSON mandatory entry missing or not a valid dict: 'machines'.",
                   <<>>, get_path_array(path))
        ELSE after_machines(machines_loop(set_next(path, d, "machines"), d + 1,
                                          machines.p, 1, <<>>))

RECURSIVE factories_loop(_, _, _, _, _, _)
\* new_site: for k,v in factories.items(); d is the depth of factory_path_node
factories_loop(path, d, site_id, pairs, i, acc) ==
    IF i > Len(pairs) THEN Ok(acc, path) ELSE
    LET k == pairs[i][1]
        v == pairs[i][2]
        \* the rest of the loop body, given what new_factory returned
        then(r) ==
            IF ~r.ok THEN r
            ELSE factories_loop(r.path, d, site_id, pairs, i + 1,
                                add_factory(acc, r.val))
    IN  IF missing_string(k)
        THEN Raise(FJE, "JSON mandatory factory ID entry invalid.",
                   <<k>>, get_path_array(path))
        ELSE then(new_factory(set_next(path, d, k), d + 1, site_id, k, v))

\* the least heat_limit new_site accepts
MinHeatLimit == 1000

\* new_site, for the handle at depth d
new_site(path, d, site_id, site_values) ==
    IF ~IsDict(site_values) THEN NoGet ELSE
    LET teleporter == Get(site_values, "teleporter")
        heat_limit == Get(site_values, "heat_limit")
        heat_current == Get(site_values, "heat_current")
        factories == Get(site_values, "factories")
        json_path == get_path_array(path)
        \* the site, given what the loop over the factories returned
        then(fr) ==
            IF ~fr.ok THEN fr
            ELSE Ok([site_id |-> site_id,
                     teleporter |-> Strip(teleporter.s),
                     heat_limit |-> heat_limit.n,
                     heat_current |-> heat_current.n,
                     json_path |-> json_path,
                     factories |-> fr.val], fr.path)
    IN  IF ~IsStr(teleporter)
        THEN Raise(FJE, "JSON mandatory entry missing or not a string: 'teleporter'.",
                   <<>>, get_path_array(path))
        ELSE IF NotIntAtLeast(heat_limit, MinHeatLimit)
        THEN Raise(FJE, "JSON mandatory entry missing or not a valid int: 'heat_limit'.",
                   <<>>, get_path_array(path))
        ELSE IF NotIntAtLeast(heat_current, 1)
        THEN Raise(FJE, "JSON mandatory entry missing or not a valid int: 'heat_current'.",
                   <<>>, get_path_array(path))
        ELSE IF ~IsDict(factories)
        THEN Raise(FJE, "JSON mandatory entry missing or not a valid dict: 'factories'.",
                   <<>>, get_path_array(path))
        ELSE then(factories_loop(set_next(path, d, "factories"), d + 1, site_id,
                                 factories.p, 1, <<>>))

----------------------------------------------------------------------------
(* FactoryDefinitions *)

\* FactoryDefinitions.__init__
NewFactoryDefinitions == [sites |-> <<>>, all_factory_outputs |-> <<>>]

RECURSIVE Concat(_)
Concat(ss) == IF ss = <<>> THEN <<>> ELSE Head(ss) \o Concat(Tail(ss))

\* for site in sites: for factory in site.factories
AllFactories(sites) ==
    Concat([i \in DOMAIN sites |-> sites[i].factories])

\* visit_all_machines: the machines in visiting order, each with its factory
visit_all_machines(sites) ==
    LET fs == AllFactories(sites)
    IN  Concat([i \in DOMAIN fs |->
                  [j \in DOMAIN fs[i].factory_machines |->
                     [factory |-> fs[i], machine |-> fs[i].factory_machines[j]]]])

\* a visit of the outputs that stops after the first site
visit_factory_outputs_of_first_site(sites) ==
    LET fs == AllFactories(SubSeq(sites, 1, 1))
    IN  Concat([i \in DOMAIN fs |->
                  [j \in DOMAIN fs[i].factory_outputs |->
                     [factory |-> fs[i], output |-> fs[i].factory_outputs[j]]]])

\* visit_all_factory_outputs
visit_all_factory_outputs(sites) ==
    LET fs == AllFactories(sites)
    IN  Concat([i \in DOMAIN fs |->
                  [j \in DOMAIN fs[i].factory_outputs |->
                     [factory |-> fs[i], output |-> fs[i].factory_outputs[j]]]])

\* visit_all_factory_storage
visit_all_factory_storage(sites) ==
    LET fs == AllFactories(sites)
    IN  Concat([i \in DOMAIN fs |->
                  [j \in DOMAIN fs[i].factory_storage |->
                     [factory |-> fs[i], storage |-> fs[i].factory_storage[j]]]])

\* for ... for factory_input in factory.factory_inputs
AllFactoryInputs(sites) ==
    LET fs == AllFactories(sites)
    IN  Concat([i \in DOMAIN fs |->
                  [j \in DOMAIN fs[i].factory_inputs |->
                     [factory |-> fs[i], factory_input |-> fs[i].factory_inputs[j]]]])

RECURSIVE index_loop(_, _, _)
\* FactoryDefinitions.__index_factory_outputs, from the i-th output on;
\* returns the index as it is left and the exception raised, if any
index_loop(all_factory_outputs, outs, i) ==
    IF i > Len(outs) THEN [index |-> all_factory_outputs, exc |-> NoError] ELSE
    LET factory == outs[i].factory
        factory_output == outs[i].output
        key == make_factory_output_key(factory.site_id, factory.factory_id,
                                       factory_output.factory_output_id)
    IN  IF key \in DOMAIN all_factory_outputs
        THEN [index |-> all_factory_outputs,
              exc |-> Raise(FJE, "Factory output ID is duplicate within factory and site.",
                            <<factory_output.factory_output_id,
                              factory.factory_id, factory.site_id>>, <<>>)]
        ELSE index_loop((key :> factory_output) @@ all_factory_outputs,
                        outs, i + 1)

index_factory_outputs(self) ==
    LET r == index_loop(self.all_factory_outputs,
                        visit_all_factory_outputs(self.sites), 1)
    IN  [self |-> [self EXCEPT !.all_factory_outputs = r.index], exc |-> r.exc]

RECURSIVE sites_loop(_, _, _, _)
\* FactoryDefinitions.load: for k,v in sites.items(), from the i-th pair on;
\* returns self.sites as it is left and the exception raised, if any
sites_loop(sites, path, pairs, i) ==
    IF i > Len(pairs) THEN [sites |-> sites, exc |-> NoError] ELSE
    LET k == pairs[i][1]
        v == pairs[i][2]
        \* the rest of the loop body, given what new_site returned
        then(r) ==
            IF ~r.ok THEN [sites |-> sites, exc |-> r]
            ELSE sites_loop(add_site(sites, r.val), r.path, pairs, i + 1)
    IN  IF missing_string(k)
        THEN [sites |-> sites,
              exc |-> Raise(FJE, "JSON mandatory site ID entry invalid.",
                            <<k>>, get_path_array(path))]
        ELSE then(new_site(set_next(path, 1, k), 2, k, v))

\* FactoryDefinitions.load: the object as the call leaves it, and the
\* exception it raised, if any
load(self, factories_dict) ==
    LET root_path == "sites"
        json_path == <<root_path>>
        sites == Get(factories_dict, root_path)
        \* what follows the loop over the sites, given how it ended
        then(lr) ==
            IF ~lr.exc.ok
            THEN [self |-> [self EXCEPT !.sites = lr.sites], exc |-> lr.exc]
            ELSE index_factory_outputs([self EXCEPT !.sites = lr.sites])
    IN  IF ~IsDict(factories_dict) THEN [self |-> self, exc |-> NoGet]
        ELSE IF IsNone(sites)
        THEN [self |-> self,
              exc |-> Raise(FJE, "JSON missing root level 'sites' entry.",
                            <<>>, get_path_array(json_path))]
        ELSE IF ~IsDict(sites) THEN [self |-> self, exc |-> NoItems]
        ELSE then(sites_loop(self.sites, json_path, sites.p, 1))

\* read_factories_json: json.load, a new FactoryDefinitions, load;
\* val is the object returned
read_factories_json(text) ==
    LET \* factory_definitions.load(factories_dict), given what it did
        loaded(r) == IF ~r.exc.ok THEN r.exc ELSE Ok(r.self, <<>>)
        parsed(factories_dict) ==
            IF ~factories_dict.ok THEN factories_dict
            ELSE loaded(load(NewFactoryDefinitions, factories_dict.val))
    IN  parsed(json_load(text))

----------------------------------------------------------------------------
(* GameDataDefinitions *)

\* GameDataDefinitions.update: inputs_per_item, the recipe inputs of every
\* item that has a recipe input, in the order of the recipe input list
inputs_per_item(recipe_inputs) ==
    [item_name \in {recipe_inputs[i].item_name : i \in DOMAIN recipe_inputs} |->
        LET idx == {i \in DOMAIN recipe_inputs :
                       recipe_inputs[i].item_name = item_name}
        IN  SelectAt([i \in DOMAIN recipe_inputs |-> recipe_inputs[i].input_name],
                     idx, 1)]

\* GameDataDefinitions.__init__ (buildings are not read by the validations)
GameDataDefinitions(items, recipe_inputs, raw_items) ==
    [items |-> items,
     recipe_inputs |-> recipe_inputs,
     raw_items |-> raw_items,
     inputs_per_item |-> inputs_per_item(recipe_inputs),
     valid_items |-> {items[i].item_name : i \in DOMAIN items}
                     \cup {raw_items[i].item_name : i \in DOMAIN raw_items}]

----------------------------------------------------------------------------
(* str() of a value, as an f-string renders it *)

Digit(n) == CASE n = 0 -> "0" [] n = 1 -> "1" [] n = 2 -> "2" [] n = 3 -> "3"
              [] n = 4 -> "4" [] n = 5 -> "5" [] n = 6 -> "6" [] n = 7 -> "7"
              [] n = 8 -> "8" [] n = 9 -> "9"

RECURSIVE NatStr(_)
NatStr(n) == IF n < 10 THEN Digit(n) ELSE NatStr(n \div 10) \o Digit(n % 10)

RECURSIVE PyRepr(_)
RECURSIVE JoinRepr(_, _)
JoinRepr(l, i) ==
    IF i > Len(l) THEN ""
    ELSE (IF i > 1 THEN ", " ELSE "") \o PyRepr(l[i]) \o JoinRepr(l, i + 1)

RECURSIVE JoinItems(_, _)
JoinItems(p, i) ==
    IF i > Len(p) THEN ""
    ELSE (IF i > 1 THEN ", " ELSE "") \o "'" \o p[i][1] \o "': "
         \o PyRepr(p[i][2]) \o JoinItems(p, i + 1)

\* repr(v)
PyRepr(v) ==
    CASE v.t = "null" -> "None"
      [] v.t = "str" -> "'" \o v.s \o "'"
      [] v.t = "int" -> IF v.n < 0 THEN "-" \o NatStr(0 - v.n) ELSE NatStr(v.n)
      [] v.t = "list" -> "[" \o JoinRepr(v.l, 1) \o "]"
      [] v.t = "dict" -> "{" \o JoinItems(v.p, 1) \o "}"

\* str(v)
PyStr(v) == IF v.t = "str" THEN v.s ELSE PyRepr(v)

----------------------------------------------------------------------------
(* Pass 1: validate_item_exists *)

\* validate_item_exists.validator, given the two sets it closes over
item_validator(raw_items, items, machine) ==
    IF ~IsNone(machine.variant)
    THEN LET raw_item == machine.item \o ";" \o PyStr(machine.variant)
         IN  IF raw_item \notin raw_items
             THEN Raise(FJE, "Machine specifies raw item with variant that does not exist in the data definitions.",
                        <<machine.machine_id, machine.item, PyStr(machine.variant)>>,
                        machine.json_path)
             ELSE NoError
    ELSE IF machine.item \notin items
         THEN Raise(FJE, "Machine specifies item that does not exist in the data definitions.",
                    <<machine.machine_id, machine.item>>, machine.json_path)
         ELSE NoError

\* a validate_item_exists that looks crafted items up in valid_items, the
\* names of the finished and of the raw items together
validate_item_exists_in_valid_items(factory_definitions, data_definitions) ==
    LET raw_items == {data_definitions.raw_items[i].item_name \o ";"
                        \o data_definitions.raw_items[i].variant :
                      i \in DOMAIN data_definitions.raw_items}
        items == data_definitions.valid_items
        ms == visit_all_machines(factory_definitions.sites)
        rs == ListOf([i \in DOMAIN ms |->
                        item_validator(raw_items, items, ms[i].machine)])
    IN  IF AllOk(rs) THEN NoError ELSE FirstRaise(rs)

\* validate_item_exists: the exception raised, or NoError
validate_item_exists(factory_definitions, data_definitions) ==
    LET raw_items == {data_definitions.raw_items[i].item_name \o ";"
                        \o data_definitions.raw_items[i].variant :
                      i \in DOMAIN data_definitions.raw_items}
        items == {data_definitions.items[i].item_name :
                  i \in DOMAIN data_definitions.items}
        ms == visit_all_machines(factory_definitions.sites)
        rs == ListOf([i \in DOMAIN ms |->
                        item_validator(raw_items, items, ms[i].machine)])
    IN  IF AllOk(rs) THEN NoError ELSE FirstRaise(rs)

----------------------------------------------------------------------------
(* Pass 2: validate_connections_exist *)

\* the strings of a validated source list, <<>> for None
SourceIds(value) ==
    IF IsNone(value) THEN <<>> ELSE [i \in DOMAIN value.l |-> value.l[i].s]

\* a validate_machine_inputs that looks at from_machine_id only
validate_machine_ids_only(machine_ids, input_ids, storage_ids, input) ==
    LET ms == SourceIds(input.from_machine_id)
        rs == [i \in DOMAIN ms |->
                 IF ms[i] \notin machine_ids
                 THEN Raise(FJE, "Connection specified by from_machine_id references a machine that doesn't exist within the same factory.",
                            <<ms[i]>>, input.json_path)
                 ELSE NoError]
    IN  IF AllOk(rs) THEN NoError ELSE FirstRaise(rs)

\* validate_connections_exist.validate_machine_inputs
validate_machine_inputs(machine_ids, input_ids, storage_ids, input) ==
    LET ms == SourceIds(input.from_machine_id)
        ss == SourceIds(input.from_storage_id)
        is == IF input.cls = "FactoryMachineInput"
              THEN SourceIds(input.from_factory_input_id) ELSE <<>>
        rs == [i \in DOMAIN ms |->
                 IF ms[i] \notin machine_ids
                 THEN Raise(FJE, "Connection specified by from_machine_id references a machine that doesn't exist within the same factory.",
                            <<ms[i]>>, input.json_path)
                 ELSE NoError]
              \o
              [i \in DOMAIN ss |->
                 IF ss[i] \notin storage_ids
                 THEN Raise(FJE, "Connection specified by from_storage_id references a storage that does not exist within the same factory.",
                            <<ss[i]>>, input.json_path)
                 ELSE NoError]
              \o
              [i \in DOMAIN is |->
                 IF is[i] \notin input_ids
                 THEN Raise(FJE, "Connection specified by from_factory_input_id references a factory input that does not exist within the same factory.",
                            <<is[i]>>, input.json_path)
                 ELSE NoError]
    IN  IF AllOk(rs) THEN NoError ELSE FirstRaise(rs)

\* the inputs and sources of one factory in the order the first loop of
\* validate_connections_exist visits them
FactoryConnections(factory) ==
    Concat([i \in DOMAIN factory.factory_machines |->
              IF IsNone(factory.factory_machines[i].inputs) THEN <<>>
              ELSE factory.factory_machines[i].inputs.l])
    \o Concat([i \in DOMAIN factory.factory_storage |->
                 factory.factory_storage[i].inputs])
    \o Concat([i \in DOMAIN factory.factory_outputs |->
                 factory.factory_outputs[i].sources])

\* validate_connections_exist: the exception raised, or NoError
validate_connections_exist(factory_definitions) ==
    LET fs == AllFactories(factory_definitions.sites)
        check_factory(factory) ==
            LET machine_ids == {factory.factory_machines[i].machine_id :
                                i \in DOMAIN factory.factory_machines}
                input_ids == {factory.factory_inputs[i].factory_input_id :
                              i \in DOMAIN factory.factory_inputs}
                storage_ids == {factory.factory_storage[i].storage_id :
                                i \in DOMAIN factory.factory_storage}
                cs == FactoryConnections(factory)
                rs == ListOf([i \in DOMAIN cs |->
                         validate_machine_inputs(machine_ids, input_ids,
                                                 storage_ids, cs[i])])
            IN  IF AllOk(rs) THEN NoError ELSE FirstRaise(rs)
        r1 == ListOf([i \in DOMAIN fs |-> check_factory(fs[i])])
        outs == visit_all_factory_outputs(factory_definitions.sites)
        existing_factory_outputs ==
            {make_factory_output_key(outs[i].factory.site_id,
                                     outs[i].factory.factory_id,
                                     outs[i].output.factory_output_id) :
             i \in DOMAIN outs}
        ins == AllFactoryInputs(factory_definitions.sites)
        r2 == ListOf([i \in DOMAIN ins |->
                 IF make_factory_output_key(ins[i].factory_input.site_id,
                                            ins[i].factory_input.factory_id,
                                            ins[i].factory_input.factory_output_id)
                      \notin existing_factory_outputs
                 THEN Raise(FJE, "Factory input references a factory output that doesn't exist.",
                            <<ins[i].factory.factory_id,
                              ins[i].factory_input.factory_input_id>>,
                            ins[i].factory_input.json_path)
                 ELSE NoError])
    IN  IF ~AllOk(r1) THEN FirstRaise(r1)
        ELSE IF ~AllOk(r2) THEN FirstRaise(r2)
        ELSE NoError

----------------------------------------------------------------------------
(* Pass 3: validation_correct_item_for_input *)

\* a test for containment in place of the test for a common item
is_not_subset(a, b) == ~(Range(a) \subseteq Range(b))

\* set(a).isdisjoint(b)
isdisjoint(a, b) == Range(a) \cap Range(b) = {}

\* a type-mismatch error: what the consumer expects and what is delivered
Mismatch(msg, args, path, expected, delivered) ==
    [ok |-> FALSE, kind |-> FJE, msg |-> msg, args |-> args, path |-> path,
     expected |-> expected, delivered |-> delivered]

\* validation_correct_item_for_input.inputs_validator;
\* consumer_desc is <<kind of consumer, its id>>
inputs_validator(all_factory_outputs, factory, input, required_input_items, consumer_desc) ==
    LET ms == SourceIds(input.from_machine_id)
        ss == SourceIds(input.from_storage_id)
        is == IF input.cls = "FactoryMachineInput"
              THEN SourceIds(input.from_factory_input_id) ELSE <<>>
        by_machine(from_machine_id) ==
            LET found == {i \in DOMAIN factory.factory_machines :
                            factory.factory_machines[i].machine_id = from_machine_id}
                from_machine ==
                    factory.factory_machines[CHOOSE i \in found :
                                               \A j \in found : i <= j]
            IN  IF found = {} THEN Raise(StopIteration, "", <<>>, <<>>)
                ELSE IF from_machine.item \notin Range(required_input_items)
                THEN Mismatch("The item produced by machine cannot be used by the consumer.",
                              <<from_machine_id>> \o consumer_desc, input.json_path,
                              required_input_items, <<from_machine.item>>)
                ELSE NoError
        by_storage(from_storage_id) ==
            LET found == {i \in DOMAIN factory.factory_storage :
                            factory.factory_storage[i].storage_id = from_storage_id}
                storage ==
                    factory.factory_storage[CHOOSE i \in found :
                                              \A j \in found : i <= j]
            IN  IF found = {} THEN Raise(StopIteration, "", <<>>, <<>>)
                ELSE IF isdisjoint(storage.items, required_input_items)
                THEN Mismatch("The item supplied by storage cannot be used by the consumer.",
                              <<from_storage_id>> \o consumer_desc, input.json_path,
                              required_input_items, storage.items)
                ELSE NoError
        by_factory_input(from_factory_input_id) ==
            LET found == {i \in DOMAIN factory.factory_inputs :
                            factory.factory_inputs[i].factory_input_id
                                = from_factory_input_id}
                output_key ==
                    get_output_key(
                        factory.factory_inputs[CHOOSE i \in found :
                                                 \A j \in found : i <= j])
                factory_output == all_factory_outputs[output_key]
            IN  IF found = {} THEN Raise(StopIteration, "", <<>>, <<>>)
                ELSE IF output_key \notin DOMAIN all_factory_outputs
                THEN Raise(KeyError, output_key, <<>>, <<>>)
                ELSE IF factory_output.dispatched_item \notin Range(required_input_items)
                THEN Mismatch("The item dispatched by output cannot be used by the consumer.",
                              <<output_key>> \o consumer_desc, input.json_path,
                              required_input_items,
                              <<factory_output.dispatched_item>>)
                ELSE NoError
        rs == [i \in DOMAIN ms |-> by_machine(ms[i])]
              \o [i \in DOMAIN ss |-> by_storage(ss[i])]
              \o [i \in DOMAIN is |-> by_factory_input(is[i])]
    IN  IF AllOk(rs) THEN NoError ELSE FirstRaise(rs)

\* validation_correct_item_for_input.machines_validator
machines_validator(all_factory_outputs, data_definitions, factory, machine) ==
    IF IsNone(machine.inputs) THEN NoError
    ELSE IF machine.item \notin DOMAIN data_definitions.inputs_per_item
    THEN Raise(KeyError, machine.item, <<>>, <<>>)
    ELSE
    LET required_input_items == data_definitions.inputs_per_item[machine.item]
        consumer_desc == <<"machine", machine.machine_id>>
        rs == ListOf([i \in DOMAIN machine.inputs.l |->
                 inputs_validator(all_factory_outputs, factory, machine.inputs.l[i],
                                  required_input_items, consumer_desc)])
    IN  IF AllOk(rs) THEN NoError ELSE FirstRaise(rs)

\* validation_correct_item_for_input.factory_outputs_validator
factory_outputs_validator(all_factory_outputs, factory, output) ==
    LET required_input_items == <<output.dispatched_item>>
        consumer_desc == <<"factory output", output.factory_output_id>>
        rs == ListOf([i \in DOMAIN output.sources |->
                 inputs_validator(all_factory_outputs, factory, output.sources[i],
                                  required_input_items, consumer_desc)])
    IN  IF AllOk(rs) THEN NoError ELSE FirstRaise(rs)

\* validation_correct_item_for_input.storage_validator
storage_validator(all_factory_outputs, factory, storage) ==
    LET required_input_items == storage.items
        consumer_desc == <<"factory storage", storage.storage_id>>
        rs == ListOf([i \in DOMAIN storage.inputs |->
                 inputs_validator(all_factory_outputs, factory, storage.inputs[i],
                                  required_input_items, consumer_desc)])
    IN  IF AllOk(rs) THEN NoError ELSE FirstRaise(rs)

\* validation_correct_item_for_input: the exception raised, or NoError
validation_correct_item_for_input(factory_definitions, data_definitions) ==
    LET index == factory_definitions.all_factory_outputs
        ms == visit_all_machines(factory_definitions.sites)
        os == visit_all_factory_outputs(factory_definitions.sites)
        ss == visit_all_factory_storage(factory_definitions.sites)
        rs == [i \in DOMAIN ms |->
                 machines_validator(index, data_definitions, ms[i].factory,
                                    ms[i].machine)]
              \o [i \in DOMAIN os |->
                    factory_outputs_validator(index, os[i].factory, os[i].output)]
              \o [i \in DOMAIN ss |->
                    storage_validator(index, ss[i].factory, ss[i].storage)]
    IN  IF AllOk(rs) THEN NoError ELSE FirstRaise(rs)

----------------------------------------------------------------------------
(* The documents loaded: the two-factory layout of the loader's scenario,   *)
(* changed in up to MaxEdits places                                         *)

MaxEdits == 2

StrList(ids) == JList([i \in DOMAIN ids |-> JStr(ids[i])])

\* one element of a machine's or storage's "inputs", or of an output's "sources"
Source(kind, ids) ==
    JObj(<< <<kind, StrList(ids)>>, <<"rate_limit_ipm", JInt(60)>> >>)

Source2(kind1, ids1, kind2, ids2) ==
    JObj(<< <<kind1, StrList(ids1)>>, <<kind2, StrList(ids2)>>,
            <<"rate_limit_ipm", JInt(60)>> >>)

RawMachine(item, variant) ==
    JObj(<< <<"item", JStr(item)>>, <<"variant", JStr(variant)>> >>)

Crafter(item, sources) ==
    JObj(<< <<"item", JStr(item)>>, <<"inputs", JList(sources)>> >>)

StorageSpec(items, sources) ==
    JObj(<< <<"items", StrList(items)>>, <<"num_stacks", JInt(1)>>,
            <<"inputs", JList(sources)>> >>)

OutputSpec(item, sources) ==
    JObj(<< <<"dispatched_item", JStr(item)>>, <<"rate_limit_ipm", JInt(60)>>,
            <<"sources", JList(sources)>> >>)

InputSpec(site_id, factory_id, factory_output_id) ==
    JObj(<< <<"site_id", JStr(site_id)>>, <<"factory_id", JStr(factory_id)>>,
            <<"factory_output_id", JStr(factory_output_id)>> >>)

SiteSpec(factories) ==
    JObj(<< <<"teleporter", JStr("")>>, <<"heat_limit", JInt(1000)>>,
            <<"heat_current", JInt(1)>>, <<"factories", JObj(factories)>> >>)

\* f1 smelts ore into ingots, stores them and dispatches them through o1
FactoryF1 ==
    JObj(<< <<"purpose", JStr("smelt")>>,
            <<"machines", JObj(<<
                <<"m1", RawMachine("ore", "normal")>>,
                <<"m2", Crafter("ingot", <<Source("from_machine_id", <<"m1">>)>>)>> >>)>>,
            <<"outputs", JObj(<<
                <<"o1", OutputSpec("ingot", <<Source("from_machine_id", <<"m2">>)>>)>> >>)>>,
            <<"storage", JObj(<<
                <<"st1", StorageSpec(<<"ingot", "plate">>,
                                     <<Source("from_machine_id", <<"m2">>)>>)>> >>)>> >>)

\* f2 receives the ingots through i1 and presses plates
FactoryF2 ==
    JObj(<< <<"purpose", JStr("press")>>,
            <<"machines", JObj(<<
                <<"m3", Crafter("plate", <<Source("from_factory_input_id", <<"i1">>)>>)>> >>)>>,
            <<"inputs", JObj(<<
                <<"i1", InputSpec("s1", "f1", "o1")>> >>)>> >>)

BaseDoc ==
    JObj(<< <<"sites", JObj(<<
        <<"s1", SiteSpec(<< <<"f1", FactoryF1>>, <<"f2", FactoryF2>> >>)>> >>)>> >>)

\* a second site with one factory: valid, and with a heat_limit too low
SiteS2 ==
    SiteSpec(<< <<"f1", JObj(<< <<"purpose", JStr("mine")>>,
                               <<"machines", JObj(<<
                                   <<"m1", RawMachine("ore", "normal")>> >>)>>,
                               <<"outputs", JObj(<<
                                   <<"o1", OutputSpec("ore",
                                       <<Source("from_machine_id", <<"m1">>)>>)>> >>)>> >>)>> >>)

SiteS2Cold ==
    JObj(<< <<"teleporter", JStr(" tp1 ")>>, <<"heat_limit", JInt(999)>>,
            <<"heat_current", JInt(1)>>, <<"factories", JObj(<<>>)>> >>)

\* the pairs of an object whose key is not k
Without(pairs, k) == SelectAt(pairs, {i \in DOMAIN pairs : pairs[i][1] # k}, 1)

RECURSIVE Apply(_, _, _, _)
\* the document v with the member at `path` set to val ("set": replaced, or
\* added when missing), removed ("del"), or written once more ("dup": a
\* second member with the same key)
Apply(v, op, path, val) ==
    IF v.t # "obj" THEN v ELSE
    LET k == Head(path)
        has == \E i \in DOMAIN v.p : v.p[i][1] = k
    IN  IF Len(path) > 1
        THEN JObj([i \in DOMAIN v.p |->
                     IF v.p[i][1] = k
                     THEN <<k, Apply(v.p[i][2], op, Tail(path), val)>>
                     ELSE v.p[i]])
        ELSE IF op = "del" THEN JObj(Without(v.p, k))
        ELSE IF op = "dup" \/ ~has THEN JObj(Append(v.p, <<k, val>>))
        ELSE JObj([i \in DOMAIN v.p |-> IF v.p[i][1] = k THEN <<k, val>> ELSE v.p[i]])

Set(path, val) == [op |-> "set", path |-> path, val |-> val]
Del(path) == [op |-> "del", path |-> path, val |-> JNull]
Dup(path, val) == [op |-> "dup", path |-> path, val |-> val]

PS1 == <<"sites", "s1">>
PF1 == <<"sites", "s1", "factories", "f1">>
PF2 == <<"sites", "s1", "factories", "f2">>
PM1 == PF1 \o <<"machines", "m1">>
PM2 == PF1 \o <<"machines", "m2">>
PM3 == PF2 \o <<"machines", "m3">>
PO1 == PF1 \o <<"outputs", "o1">>
PST1 == PF1 \o <<"storage", "st1">>
PI1 == PF2 \o <<"inputs", "i1">>

\* changes to the shape and the item of a machine
MachineEdits ==
    { Del(PM1 \o <<"variant">>),
      Set(PM1 \o <<"inputs">>, JList(<<Source("from_machine_id", <<"m2">>)>>)),
      Set(PM1 \o <<"variant">>, JStr("pure")),
      Set(PM1 \o <<"variant">>, JStr("")),
      Set(PM1 \o <<"item">>, JStr("ingot")),
      Set(PM2 \o <<"item">>, JStr("ore")),
      Set(PM3 \o <<"item">>, JStr("gear")) }

\* changes to the sources of machines, storage and outputs
SourceEdits ==
    { Set(PM2 \o <<"inputs">>, JList(<<Source("from_machine_id", <<"m3">>)>>)),
      Set(PM2 \o <<"inputs">>, JList(<<Source("from_storage_id", <<"st1">>)>>)),
      Set(PM2 \o <<"inputs">>, JList(<<Source("from_storage_id", <<"stX">>)>>)),
      Set(PM2 \o <<"inputs">>, JList(<<Source("from_factory_input_id", <<"i1">>)>>)),
      Set(PM3 \o <<"inputs">>, JList(<<Source("from_factory_input_id", <<"iX">>)>>)),
      Set(PM3 \o <<"inputs">>,
          JList(<<Source2("from_machine_id", <<"m3">>,
                          "from_factory_input_id", <<"i1">>)>>)),
      Set(PO1 \o <<"sources">>, JList(<<Source("from_machine_id", <<"mX">>)>>)),
      Set(PO1 \o <<"sources">>, JList(<<Source("from_storage_id", <<"st1">>)>>)),
      Set(PO1 \o <<"sources">>, JList(<<Source("from_machine_id", <<"m1">>)>>)),
      Set(PO1 \o <<"sources">>,
          JList(<<Source2("from_machine_id", <<"m2">>,
                          "from_factory_input_id", <<"iX">>)>>)),
      Set(PST1 \o <<"inputs">>, JList(<<Source("from_machine_id", <<"m1">>)>>)),
      Set(PST1 \o <<"inputs">>, JList(<<Source("from_storage_id", <<"st1">>)>>)),
      Set(PST1 \o <<"inputs">>, JList(<<Source("from_factory_input_id", <<"i1">>)>>)),
      Set(PST1 \o <<"items">>, StrList(<<"plate">>)),
      Set(PST1 \o <<"items">>, StrList(<<"ore", "ingot">>)),
      Set(PF2 \o <<"storage">>,
          JObj(<< <<"st1", StorageSpec(<<"gear", "ingot">>,
                      <<Source("from_factory_input_id", <<"i1">>)>>)>> >>)) }

\* changes to the link between f2's input and f1's output
LinkEdits ==
    { Set(PI1 \o <<"factory_output_id">>, JStr("oX")),
      Set(PI1 \o <<"factory_id">>, JStr("f2")),
      Set(PI1 \o <<"site_id">>, JStr("s2")),
      Set(PO1 \o <<"dispatched_item">>, JStr("plate")),
      Del(PF1 \o <<"outputs">>) }

\* changes to the sites and to the types of the sections
ShapeEdits ==
    { Set(<<"sites", "s2">>, SiteS2),
      Set(<<"sites", "s2">>, SiteS2Cold),
      Set(PS1 \o <<"heat_limit">>, JInt(999)),
      Set(PF2 \o <<"inputs">>, JStr("x")),
      Del(PF1 \o <<"machines">>),
      Set(PF2, JList(<<>>)),
      Del(<<"sites">>) }

\* a key written twice in one object
DuplicateEdits ==
    { Dup(PM1, RawMachine("ore", "normal")),
      Dup(PM2, RawMachine("ore", "normal")),
      Dup(PS1 \o <<"teleporter">>, JStr("")),
      Dup(PM3 \o <<"item">>, JStr("plate")) }

Edits == MachineEdits \cup SourceEdits \cup LinkEdits \cup ShapeEdits
         \cup DuplicateEdits

\* one element of an "inputs" or "sources" list whose source list `kind` has
\* the JSON value `value`
SourceOf(kind, value) ==
    JObj(<< <<kind, value>>, <<"rate_limit_ipm", JInt(60)>> >>)

\* an element with a well-formed from_machine_id list and a second list
SourceAnd(kind, value) ==
    JObj(<< <<"from_machine_id", StrList(<<"m2">>)>>, <<kind, value>>,
            <<"rate_limit_ipm", JInt(60)>> >>)

\* an element that names no source at all
NoSource == JObj(<< <<"rate_limit_ipm", JInt(60)>> >>)

\* JSON values that are not a list of populated strings
BadLists ==
    { JList(<<>>), JStr("m1"), JList(<<JInt(1)>>), JList(<<JStr(" ")>>),
      JList(<<JStr("m1"), JStr("")>>) }

\* source lists of machine inputs, storage inputs and output sources that
\* are empty, of the wrong type or hold something else than an id; elements
\* with no source list
ListEdits ==
    { Set(PM2 \o <<"inputs">>, JList(<<SourceOf(k, v)>>)) :
        k \in {"from_machine_id", "from_storage_id", "from_factory_input_id"},
        v \in BadLists }
    \cup { Set(PST1 \o <<"inputs">>, JList(<<SourceOf(k, v)>>)) :
        k \in {"from_machine_id", "from_storage_id"}, v \in BadLists }
    \cup { Set(PO1 \o <<"sources">>, JList(<<SourceOf(k, v)>>)) :
        k \in {"from_machine_id", "from_storage_id"}, v \in BadLists }
    \cup { Set(PM2 \o <<"inputs">>, JList(<<SourceAnd("from_storage_id", JList(<<>>))>>)),
           Set(PST1 \o <<"inputs">>, JList(<<SourceAnd("from_storage_id", JList(<<>>))>>)),
           Set(PO1 \o <<"sources">>, JList(<<SourceAnd("from_storage_id", JList(<<>>))>>)),
           Set(PM2 \o <<"inputs">>, JList(<<SourceAnd("from_storage_id", JNull)>>)),
           Set(PM2 \o <<"inputs">>, JList(<<NoSource>>)),
           Set(PST1 \o <<"inputs">>, JList(<<NoSource>>)),
           Set(PO1 \o <<"sources">>, JList(<<NoSource>>)),
           Set(PO1 \o <<"sources">>,
               JList(<<SourceOf("from_factory_input_id", StrList(<<"i1">>))>>)) }

\* storage fed by storage: by another one, and by itself among others
StorageEdits ==
    { Set(PF1 \o <<"storage", "st2">>,
          StorageSpec(<<"ingot">>, <<Source("from_storage_id", <<"st1">>)>>)),
      Set(PST1 \o <<"inputs">>,
          JList(<<Source("from_machine_id", <<"m2">>),
                  Source("from_storage_id", <<"stX", "st1">>)>>)),
      Set(PST1 \o <<"inputs">>,
          JList(<<Source2("from_machine_id", <<"m2">>,
                          "from_factory_input_id", <<"i1">>)>>)) }

\* the sections of a factory left out, or given a value of another type
SectionEdits ==
    { Del(PF2 \o <<"inputs">>), Del(PF1 \o <<"storage">>),
      Set(PF1 \o <<"outputs">>, JList(<<>>)),
      Set(PF2 \o <<"outputs">>, JStr("o1")),
      Set(PF1 \o <<"storage">>, JInt(1)),
      Set(PF1 \o <<"storage">>, JNull),
      Set(PF1 \o <<"machines">>, JList(<<>>)),
      Set(PF1 \o <<"machines">>, JNull),
      Set(PF2 \o <<"storage">>, JObj(<<>>)) }

\* a value of another type where an object is expected, and objects that
\* lack a key they must have
TypeEdits ==
    { Set(<<"sites">>, JList(<<>>)), Set(<<"sites">>, JStr("s1")),
      Set(PS1, JStr("x")), Set(PS1, JNull),
      Set(PM1, JStr("ore")), Set(PM2, JList(<<>>)),
      Set(PI1, JList(<<>>)), Set(PO1, JInt(1)), Set(PST1, JStr("ingot")),
      Set(PM2 \o <<"inputs">>, JList(<<JStr("m1")>>)),
      Set(PST1 \o <<"inputs">>, JList(<<JInt(1)>>)),
      Set(PO1 \o <<"sources">>, JList(<<JNull>>)),
      Del(PS1 \o <<"teleporter">>), Del(PS1 \o <<"factories">>),
      Del(PF1 \o <<"purpose">>), Del(PM1 \o <<"item">>),
      Del(PI1 \o <<"site_id">>), Del(PO1 \o <<"sources">>),
      Del(PST1 \o <<"num_stacks">>) }

\* ids that are blank, written after a well-formed sibling, and faults in
\* the second site
BlankIdEdits ==
    { Set(<<"sites", " ">>, SiteS2),
      Set(<<"sites", "s1", "factories", "">>, FactoryF2),
      Set(PF1 \o <<"machines", " ">>, RawMachine("ore", "normal")),
      Set(PF2 \o <<"inputs", "">>, InputSpec("s1", "f1", "o1")),
      Set(PF1 \o <<"outputs", " ">>,
          OutputSpec("ingot", <<Source("from_machine_id", <<"m2">>)>>)),
      Set(PF1 \o <<"storage", "">>,
          StorageSpec(<<"ingot">>, <<Source("from_machine_id", <<"m2">>)>>)),
      Set(<<"sites", "s2">>, SiteSpec(<< <<"f1", JObj(<<>>)>> >>)) }

\* values of 'variant' that are not a populated string
VariantEdits ==
    { Set(PM1 \o <<"variant">>, JStr(" ")),
      Set(PM1 \o <<"variant">>, JInt(5)),
      Set(PM1 \o <<"variant">>, JList(<<>>)) }

\* a mine whose only output has the id factory_output_id
Mine(factory_output_id) ==
    JObj(<< <<"purpose", JStr("mine")>>,
            <<"machines", JObj(<< <<"m1", RawMachine("ore", "normal")>> >>)>>,
            <<"outputs", JObj(<<
                <<factory_output_id,
                  OutputSpec("ore", <<Source("from_machine_id", <<"m1">>)>>)>> >>)>> >>)

\* ids with the ';' of the output key in them: an output of f2 with such an
\* id, and a second site whose two factories and their outputs have
\* different ids that read the same once joined
SeparatorEdits ==
    { Set(PF2 \o <<"outputs">>,
          JObj(<< <<"o1;x", OutputSpec("plate",
                                <<Source("from_machine_id", <<"m3">>)>>)>> >>)),
      Set(<<"sites", "s2">>,
          SiteSpec(<< <<"f1", Mine("o1;x")>>, <<"f1;o1", Mine("x")>> >>)) }

\* the changes made to the layout one at a time
StructureEdits ==
    ListEdits \cup StorageEdits \cup SectionEdits \cup TypeEdits
    \cup BlankIdEdits \cup VariantEdits \cup SeparatorEdits

----------------------------------------------------------------------------
(* The catalogues the validations are given: the scenario's catalogue with  *)
(* one of its three lists replaced                                          *)

ItemList(names) == [i \in DOMAIN names |-> [item_name |-> names[i]]]

RawItem(item_name, variant) == [item_name |-> item_name, variant |-> variant]

RecipeInput(item_name, input_name) ==
    [item_name |-> item_name, input_name |-> input_name]

BaseItems == ItemList(<<"ingot", "plate">>)
BaseRawItems == <<RawItem("ore", "normal")>>
BaseRecipeInputs == <<RecipeInput("ingot", "ore"), RecipeInput("plate", "ingot")>>

SetList(which, list) == [op |-> which, path |-> <<>>, val |-> [t |-> "rows", l |-> list]]

CatalogueEdits ==
    { SetList("items", ItemList(<<"ingot">>)),
      SetList("items", ItemList(<<"ingot", "plate", "ore">>)),
      SetList("raw_items", <<RawItem("ore", "normal"), RawItem("ore", "pure")>>),
      SetList("raw_items", <<>>),
      SetList("recipe_inputs",
              <<RecipeInput("ingot", "copper"), RecipeInput("plate", "ingot")>>),
      SetList("recipe_inputs", <<RecipeInput("ingot", "ore")>>),
      SetList("recipe_inputs",
              <<RecipeInput("ingot", "ore"), RecipeInput("plate", "ingot"),
                RecipeInput("ingot", "copper"), RecipeInput("plate", "ore")>>) }

DocOps == {"set", "del", "dup"}

RECURSIVE ApplyAll(_, _)
\* the document after the edits es, in order
ApplyAll(v, es) ==
    IF es = <<>> THEN v
    ELSE IF Head(es).op \notin DocOps THEN ApplyAll(v, Tail(es))
    ELSE ApplyAll(Apply(v, Head(es).op, Head(es).path, Head(es).val), Tail(es))

\* the list `which` of the catalogue after the edits es: the last one set
ListAfter(which, base, es) ==
    LET idx == {i \in DOMAIN es : es[i].op = which}
    IN  IF idx = {} THEN base
        ELSE es[CHOOSE i \in idx : \A j \in idx : j <= i].val.l

EditSeqs ==
    UNION {[1..n -> Edits \cup CatalogueEdits] : n \in 0..MaxEdits}
    \cup {<<e>> : e \in StructureEdits}

\* the file and the catalogue of one run
Inputs ==
    { [doc |-> ApplyAll(BaseDoc, es),
       gdd |-> GameDataDefinitions(ListAfter("items", BaseItems, es),
                                   ListAfter("recipe_inputs", BaseRecipeInputs, es),
                                   ListAfter("raw_items", BaseRawItems, es))] :
      es \in EditSeqs }

----------------------------------------------------------------------------
(* load_factories_json as a state machine *)

Steps == <<"read_factories_json", "validate_item_exists",
           "validate_connections_exist", "validation_correct_item_for_input">>

\* a load_factories_json that catches the exception of a step and goes on
ContinueAfterFailure(exc, next) == next

\* where load_factories_json goes after a step: on to `next`, or out with
\* the exception the step raised
Continue(exc, next) == IF exc.ok THEN next ELSE "raised"

----------------------------------------------------------------------------
(* srcalc.py: the production chain calculator, walk_item_chain              *)
(*                                                                          *)
(* Rates are integers; Machine.get_ratio divides exactly in the catalogues  *)
(* walked (a machine provides 0 or 1 item per minute).  None as a           *)
(* production_chain_key is the empty string; a Machine is referred to by    *)
(* its index in machine_nodes, None by 0.                                      *)

ZeroDivisionError == "ZeroDivisionError"

\* Recurse limit to prevent infinite recursion.
MAX_WALK_DEPTH == 100

\* Node types
NODE_ITEM == 0
NODE_INPUT == 1
NODE_RAW == 2

\* None, as a production_chain_key and as a current_machine
NoKey == ""
NoMachine == 0

\* a limit that lets two more calls through
walk_depth_exceeded_late(walk_depth) == MAX_WALK_DEPTH + 2 < walk_depth

\* walk_item_chain: if MAX_WALK_DEPTH < walk_depth
walk_depth_exceeded(walk_depth) == MAX_WALK_DEPTH < walk_depth

\* the first element of the list that satisfies the test, as a one-element
\* list; the empty list when there is none
FirstOf(list, Test(_)) ==
    LET idx == {i \in DOMAIN list : Test(list[i])}
    IN  IF idx = {} THEN <<>>
        ELSE <<list[CHOOSE i \in idx : \A j \in idx : i <= j]>>

\* find_item
find_item(item_name, items) ==
    LET found == FirstOf(items, LAMBDA i : item_name = i.item_name)
    IN  IF found # <<>> THEN Ok(found[1], <<>>)
        ELSE Raise(ValueError, "Cannot find item in items.", <<item_name>>, <<>>)

\* find_inputs
find_inputs(item_name, recipe_inputs) ==
    LET found == SelectSeq(recipe_inputs, LAMBDA i : item_name = i.item_name)
    IN  IF 0 = Len(found)
        THEN Raise(ValueError, "Cannot find item in recipe_inputs.", <<item_name>>, <<>>)
        ELSE Ok(found, <<>>)

\* find_raw
find_raw(item_name, variant, raw_items) ==
    LET found == FirstOf(raw_items,
                         LAMBDA i : item_name = i.item_name /\ variant = i.variant)
    IN  IF found # <<>> THEN Ok(found[1], <<>>)
        ELSE Raise(ValueError, "Cannot find item in raw_items.", <<item_name>>, <<>>)

\* initialize_raw_items, is_raw
raw_item_names(raw_items) == {raw_items[i].item_name : i \in DOMAIN raw_items}

is_raw(item_name, raw_items) == item_name \in raw_item_names(raw_items)

\* RequiredItem()
NewRequiredItem == [machine_name |-> "", provided_ipm |-> 0, required_ipm |-> 0]

\* crafting_items.get(item_name, RequiredItem())
crafting_item(items_crafted, item_name) ==
    IF item_name \in DOMAIN items_crafted THEN items_crafted[item_name]
    ELSE NewRequiredItem

\* RequiredItem.set_machine_name, add_provided, add_required
set_machine_name(self, machine_name) ==
    IF self.machine_name = "" THEN [self EXCEPT !.machine_name = machine_name]
    ELSE self

add_provided(self, provided_per_minute) ==
    [self EXCEPT !.provided_ipm = provided_per_minute]

add_required(self, required_per_minute) ==
    [self EXCEPT !.required_ipm = @ + required_per_minute]

\* crafting_items[item_name] = required_item
put_crafting_item(items_crafted, item_name, required_item) ==
    (item_name :> required_item) @@ items_crafted

\* Machine(machine_name, item_name, provided_ipm, required_ipm)
NewMachine(machine_name, item_name, provided_ipm, required_ipm) ==
    [machine_name |-> machine_name, item_name |-> item_name,
     provided_ipm |-> provided_ipm, required_ipm |-> required_ipm,
     inputs |-> <<>>, is_existing_provider |-> FALSE]

\* new_existing_provider_machine
new_existing_provider_machine(item_name, provided_ipm) ==
    [NewMachine("INPUT", item_name, provided_ipm, 0)
        EXCEPT !.is_existing_provider = TRUE]

\* a new Machine object, and current_machine.add_input(machine) when there
\* is a current machine: the machines as they are left
with_machine(all_machines, current_machine, machine) ==
    LET made == Append(all_machines, machine)
    IN  IF current_machine = NoMachine THEN made
        ELSE [made EXCEPT ![current_machine].inputs = Append(@, Len(made))]

\* Machine.get_ratio
get_ratio(self) ==
    IF self.provided_ipm = 0
    THEN Raise(ZeroDivisionError, "float division by zero", <<>>, <<>>)
    ELSE Ok(self.required_ipm \div self.provided_ipm, <<>>)

\* a call of walk_item_chain about to run, with the arguments it was given
NewCall(item_name, required_ipm, source_list, walk_depth, current_machine, production_chain_key) ==
    [at |-> "call", item_name |-> item_name, required_ipm |-> required_ipm,
     source_list |-> source_list, walk_depth |-> walk_depth,
     current_machine |-> current_machine,
     production_chain_key |-> production_chain_key,
     found_items |-> <<>>, next |-> 1, machine |-> NoMachine]

----------------------------------------------------------------------------
(* Specifications *)

\* no JsonPath has been made, no call on one
NoJsonPath == [nodes |-> <<>>, held |-> FALSE, alive |-> FALSE]

NoCall == [op |-> "none"]

PathIdle == jp = NoJsonPath /\ ret = NoCall

\* walk_item_chain has not been called
NoJob == [requesting |-> <<>>]

NotWalked == [status |-> "none"]

WalkIdle ==
    /\ job = NoJob
    /\ stack = <<>>
    /\ crafting_items = <<>>
    /\ machine_nodes = <<>>
    /\ walked = NotWalked

Init ==
    /\ PathIdle
    /\ WalkIdle
    /\ pc = "start"
    /\ \E in \in Inputs : doc = in.doc /\ gdd = in.gdd
    /\ fd = NewFactoryDefinitions
    /\ err = NoError
    /\ ran = <<>>
    /\ loads = 0

\* factory_definitions = read_factories_json(filename)
ReadFactoriesJson ==
    /\ pc = "start"
    /\ LET returns(r) ==
               /\ pc' = Continue(r, "read")
               /\ fd' = IF r.ok THEN r.val ELSE fd
               /\ err' = IF r.ok THEN err ELSE r
               /\ ran' = Append(ran, [step |-> Steps[1], ok |-> r.ok])
       IN  returns(read_factories_json(doc))
    /\ loads' = loads + 1
    /\ UNCHANGED <<doc, gdd, path_vars, walk_vars>>

\* validate_item_exists(factory_definitions, game_data_definitions)
ValidateItemExists ==
    /\ pc = "read"
    /\ LET returns(r) ==
               /\ pc' = Continue(r, "pass1")
               /\ err' = IF r.ok THEN err ELSE r
               /\ ran' = Append(ran, [step |-> Steps[2], ok |-> r.ok])
       IN  returns(validate_item_exists(fd, gdd))
    /\ UNCHANGED <<doc, gdd, fd, loads, path_vars, walk_vars>>

\* a Pass 2 that empties the index of the outputs once it is done
ValidateConnectionsExistClearingIndex ==
    /\ pc = "pass1"
    /\ LET returns(r) ==
               /\ pc' = Continue(r, "pass2")
               /\ err' = IF r.ok THEN err ELSE r
               /\ ran' = Append(ran, [step |-> Steps[3], ok |-> r.ok])
       IN  returns(validate_connections_exist(fd))
    /\ fd' = [fd EXCEPT !.all_factory_outputs = <<>>]
    /\ UNCHANGED <<doc, gdd, loads, path_vars, walk_vars>>

\* validate_connections_exist(factory_definitions)
ValidateConnectionsExist ==
    /\ pc = "pass1"
    /\ LET returns(r) ==
               /\ pc' = Continue(r, "pass2")
               /\ err' = IF r.ok THEN err ELSE r
               /\ ran' = Append(ran, [step |-> Steps[3], ok |-> r.ok])
       IN  returns(validate_connections_exist(fd))
    /\ UNCHANGED <<doc, gdd, fd, loads, path_vars, walk_vars>>

\* validation_correct_item_for_input(...); return factory_definitions
ValidationCorrectItemForInput ==
    /\ pc = "pass2"
    /\ LET returns(r) ==
               /\ pc' = Continue(r, "returned")
               /\ err' = IF r.ok THEN err ELSE r
               /\ ran' = Append(ran, [step |-> Steps[4], ok |-> r.ok])
       IN  returns(validation_correct_item_for_input(fd, gdd))
    /\ UNCHANGED <<doc, gdd, fd, loads, path_vars, walk_vars>>

Next ==
    \/ ReadFactoriesJson
    \/ ValidateItemExists
    \/ ValidateConnectionsExist
    \/ ValidationCorrectItemForInput

Spec == Init /\ [][Next]_vars

----------------------------------------------------------------------------
(* A caller that keeps one FactoryDefinitions object and calls load on it   *)
(* with one parsed document after another                                   *)

MaxLoads == 2

\* the documents handed to load: the scenario's layout, changed in at most
\* one place, as json.load returns them
LoadDocs ==
    {d \in {BaseDoc} \cup {ApplyAll(BaseDoc, <<e>>) : e \in Edits} :
        json_load(d).ok}

InitLoad ==
    /\ PathIdle
    /\ WalkIdle
    /\ pc = "object"
    /\ doc = JNull
    /\ gdd = GameDataDefinitions(BaseItems, BaseRecipeInputs, BaseRawItems)
    /\ fd = NewFactoryDefinitions
    /\ err = NoError
    /\ ran = <<>>
    /\ loads = 0

\* factory_definitions.load(factories_dict) on the object fd
Load ==
    /\ loads < MaxLoads
    /\ \E d \in LoadDocs :
         LET returns(r) ==
                 /\ doc' = d
                 /\ fd' = r.self
                 /\ err' = r.exc
                 /\ pc' = IF r.exc.ok THEN "loaded" ELSE "load_failed"
                 /\ ran' = Append(ran, [step |-> "load", ok |-> r.exc.ok,
                                        before |-> fd])
         IN  returns(load(fd, json_load(d).val))
    /\ loads' = loads + 1
    /\ UNCHANGED <<gdd, path_vars, walk_vars>>

NextLoad == Load

SpecLoad == InitLoad /\ [][NextLoad]_vars

----------------------------------------------------------------------------
(* A caller that holds one Factory and appends children to its four         *)
(* collections with add_machine, add_input, add_output and add_storage      *)

MaxAdds == 4

\* Factory.__init__: a factory with empty collections
NewFactory(site_id, factory_id, purpose, json_path) ==
    [site_id |-> site_id, factory_id |-> factory_id, purpose |-> purpose,
     json_path |-> json_path, factory_machines |-> <<>>,
     factory_inputs |-> <<>>, factory_outputs |-> <<>>,
     factory_storage |-> <<>>]

\* the objects the constructors make of the scenario's layout
Scenario == load(NewFactoryDefinitions, json_load(BaseDoc).val).self

\* the children handed to the add methods: the ones of the scenario
MachinePool == {v.machine : v \in Range(visit_all_machines(Scenario.sites))}
InputPool == {v.factory_input : v \in Range(AllFactoryInputs(Scenario.sites))}
OutputPool == {v.output : v \in Range(visit_all_factory_outputs(Scenario.sites))}
StoragePool == {v.storage : v \in Range(visit_all_factory_storage(Scenario.sites))}

\* the factory the caller holds
TheFactory == fd.sites[1].factories[1]

InitAdd ==
    /\ PathIdle
    /\ WalkIdle
    /\ pc = "factory"
    /\ doc = JNull
    /\ gdd = GameDataDefinitions(BaseItems, BaseRecipeInputs, BaseRawItems)
    /\ fd = [sites |-> <<[site_id |-> "s1", teleporter |-> "",
                          heat_limit |-> MinHeatLimit, heat_current |-> 1,
                          json_path |-> <<"sites", "s1">>,
                          factories |-> <<NewFactory("s1", "f1", "smelt",
                                             <<"sites", "s1", "factories", "f1">>)>>]>>,
             all_factory_outputs |-> <<>>]
    /\ err = NoError
    /\ ran = <<>>
    /\ loads = 0

\* factory.add_machine(machine)
AddMachine ==
    /\ loads < MaxAdds
    /\ \E machine \in MachinePool :
         fd' = [fd EXCEPT !.sites[1].factories[1].factory_machines =
                             add_machine(@, machine)]
    /\ pc' = "add_machine"
    /\ loads' = loads + 1
    /\ UNCHANGED <<doc, gdd, err, ran, path_vars, walk_vars>>

\* factory.add_input(factory_input)
AddInput ==
    /\ loads < MaxAdds
    /\ \E factory_input \in InputPool :
         fd' = [fd EXCEPT !.sites[1].factories[1].factory_inputs =
                             add_input(@, factory_input)]
    /\ pc' = "add_input"
    /\ loads' = loads + 1
    /\ UNCHANGED <<doc, gdd, err, ran, path_vars, walk_vars>>

\* factory.add_output(factory_output)
AddOutput ==
    /\ loads < MaxAdds
    /\ \E factory_output \in OutputPool :
         fd' = [fd EXCEPT !.sites[1].factories[1].factory_outputs =
                             add_output(@, factory_output)]
    /\ pc' = "add_output"
    /\ loads' = loads + 1
    /\ UNCHANGED <<doc, gdd, err, ran, path_vars, walk_vars>>

\* factory.add_storage(storage)
AddStorage ==
    /\ loads < MaxAdds
    /\ \E storage \in StoragePool :
         fd' = [fd EXCEPT !.sites[1].factories[1].factory_storage =
                             add_storage(@, storage)]
    /\ pc' = "add_storage"
    /\ loads' = loads + 1
    /\ UNCHANGED <<doc, gdd, err, ran, path_vars, walk_vars>>

NextAdd ==
    \/ AddMachine
    \/ AddInput
    \/ AddOutput
    \/ AddStorage

SpecAdd == InitAdd /\ [][NextAdd]_vars

----------------------------------------------------------------------------
(* The loader is not running *)

LoaderIdle ==
    /\ pc = "idle"
    /\ doc = JNull
    /\ gdd = GameDataDefinitions(BaseItems, BaseRecipeInputs, BaseRawItems)
    /\ fd = NewFactoryDefinitions
    /\ err = NoError
    /\ ran = <<>>
    /\ loads = 0

----------------------------------------------------------------------------
(* A caller that makes one JsonPath, keeps every handle it is given and     *)
(* calls the handles' methods in any order; it may give up its reference to *)
(* the JsonPath, which is then collected at some later moment               *)

MaxNodes == 4

\* the path ids handed to set_next
PathIds == {"s1", "f1"}

\* the root path of FactoryDefinitions.load
RootPath == "sites"

\* the handles the caller holds: every node made so far
Handles == DOMAIN jp.nodes

\* what a call did: the method, the handle and argument it was called
\* with, the JsonPath before it, what it returned and what it raised
Called(op, self, path_id, r) ==
    [op |-> op, self |-> self, path_id |-> path_id, before |-> jp,
     val |-> r.val, exc |-> r.exc]

InitPath ==
    /\ LoaderIdle
    /\ WalkIdle
    /\ jp = NewJsonPath(RootPath)
    /\ ret = NoCall

\* node.set_next(path_id)
NodeSetNext ==
    /\ \E self \in Handles : \E path_id \in PathIds :
         LET returns(r) ==
                 /\ jp' = r.json_path
                 /\ ret' = Called("set_next", self, path_id, r)
         IN  returns(JsonPathNode_set_next(jp, self, path_id))
    /\ Len(jp.nodes) < MaxNodes
    /\ UNCHANGED <<loader_vars, walk_vars>>

\* node.truncate()
NodeTruncate ==
    /\ \E self \in Handles :
         LET returns(r) ==
                 /\ jp' = r.json_path
                 /\ ret' = Called("truncate", self, "", r)
         IN  returns(JsonPathNode_truncate(jp, self))
    /\ UNCHANGED <<loader_vars, walk_vars>>

\* node.get_path_str()
NodeGetPathStr ==
    /\ \E self \in Handles :
         ret' = Called("get_path_str", self, "",
                       JsonPathNode_get_path_str(jp, self))
    /\ UNCHANGED <<loader_vars, walk_vars, jp>>

\* node.get_path_array()
NodeGetPathArray ==
    /\ \E self \in Handles :
         ret' = Called("get_path_array", self, "",
                       JsonPathNode_get_path_array(jp, self))
    /\ UNCHANGED <<loader_vars, walk_vars, jp>>

\* raise FactoriesJsonError(message, node)
RaiseFactoriesJsonError ==
    /\ \E self \in Handles :
         ret' = Called("FactoriesJsonError", self, "",
                       FactoriesJsonError(jp, "JSON missing root level 'sites' entry.", self))
    /\ UNCHANGED <<loader_vars, walk_vars, jp>>

\* json_path.set_next(path_id), by a caller that still has the JsonPath
PathSetNext ==
    /\ jp.held
    /\ Len(jp.nodes) < MaxNodes
    /\ \E path_id \in PathIds :
         LET returns(r) ==
                 /\ jp' = r.json_path
                 /\ ret' = Called("JsonPath.set_next", get_path_head(jp), path_id, r)
         IN  returns(JsonPath_set_next(jp, path_id))
    /\ UNCHANGED <<loader_vars, walk_vars>>

\* the caller's last reference to the JsonPath goes away (load returns)
Release ==
    /\ jp.held
    /\ jp' = [jp EXCEPT !.held = FALSE]
    /\ UNCHANGED <<loader_vars, walk_vars, ret>>

\* the JsonPath nobody refers to is collected: at once or later, as the
\* interpreter decides
Collect ==
    /\ ~jp.held
    /\ jp.alive
    /\ jp' = [jp EXCEPT !.alive = FALSE]
    /\ UNCHANGED <<loader_vars, walk_vars, ret>>

NextPath ==
    \/ NodeSetNext
    \/ NodeTruncate
    \/ NodeGetPathStr
    \/ NodeGetPathArray
    \/ RaiseFactoriesJsonError
    \/ PathSetNext
    \/ Release
    \/ Collect

SpecPath == InitPath /\ [][NextPath]_vars

----------------------------------------------------------------------------
(* main calling walk_item_chain for the requested item: the recursion as a  *)
(* stack of calls, one step per call entered, per round of the loop over    *)
(* the inputs found, and per return of a call for an item                   *)

\* Item, RecipeInput, RawItem as the data files give them
Item(item_name, factory, items_per_minute) ==
    [item_name |-> item_name, factory |-> factory,
     items_per_minute |-> items_per_minute]

RecipeInputRow(item_name, input_name, required_per_minute) ==
    [item_name |-> item_name, input_name |-> input_name,
     required_per_minute |-> required_per_minute]

RawItemRow(item_name, variant, items_per_minute) ==
    [item_name |-> item_name, variant |-> variant, factory |-> "extractor",
     items_per_minute |-> items_per_minute]

\* what one run is given: the three lists, the request and the inputs that
\* are already available
Job(items, recipe_inputs, raw_items, requesting, available) ==
    [items |-> items, recipe_inputs |-> recipe_inputs, raw_items |-> raw_items,
     requesting |-> requesting, available_inputs |-> available]

NoneAvailable == <<>>

Smelter == Item("ingot", "smelter", 1)
Press == Item("plate", "press", 1)
Ore == RawItemRow("ore", "normal", 1)

\* plates made of ingots made of ore
PlateChain == <<RecipeInputRow("plate", "ingot", 1), RecipeInputRow("ingot", "ore", 2)>>

\* the catalogues walked: the chain above, recipes that lead back to an item
\* already on the chain, and lists in which a name is missing
Jobs ==
    { Job(<<Press, Smelter>>, PlateChain, <<Ore>>, <<"plate", 1>>, NoneAvailable),
      Job(<<Press, Smelter>>, PlateChain, <<Ore>>, <<"ingot", 2>>, NoneAvailable),
      Job(<<Press>>, <<RecipeInputRow("plate", "plate", 1)>>, <<Ore>>,
          <<"plate", 1>>, NoneAvailable),
      Job(<<Press, Smelter>>,
          <<RecipeInputRow("plate", "ingot", 1), RecipeInputRow("ingot", "plate", 1)>>,
          <<Ore>>, <<"plate", 1>>, NoneAvailable),
      Job(<<Press>>,
          <<RecipeInputRow("plate", "ore", 1), RecipeInputRow("plate", "plate", 1)>>,
          <<Ore>>, <<"plate", 1>>, NoneAvailable),
      Job(<<Press>>, <<RecipeInputRow("plate", "plate", 1)>>, <<Ore>>,
          <<"plate", 1>>, "plate" :> ("plate" :> 5)),
      Job(<<Press, Smelter>>, PlateChain, <<Ore>>, <<"plate", 2>>,
          ("plate" :> ("ingot" :> 1)) @@ ("plate;ingot" :> ("ore" :> 4))),
      Job(<<Press, Smelter>>, PlateChain, <<Ore>>, <<"plate", 1>>,
          "plate" :> ("ore" :> 1)),
      Job(<<Press>>, PlateChain, <<Ore>>, <<"plate", 1>>, NoneAvailable),
      Job(<<Press, Smelter>>, <<RecipeInputRow("plate", "ingot", 1)>>, <<Ore>>,
          <<"plate", 1>>, NoneAvailable),
      Job(<<Press, Smelter>>, PlateChain, <<RawItemRow("ore", "pure", 1)>>,
          <<"plate", 1>>, NoneAvailable),
      Job(<<Press, Smelter>>, PlateChain, <<Ore>>, <<"gear", 1>>, NoneAvailable),
      Job(<<Press, Item("ingot", "smelter", 0)>>, PlateChain, <<Ore>>,
          <<"plate", 1>>, NoneAvailable) }

\* the calls under way, the innermost last
Top == stack[Len(stack)]

Pop(calls) == SubSeq(calls, 1, Len(calls) - 1)

\* an exception leaves walk_item_chain and all its callers
Raised(exc) ==
    /\ walked' = [status |-> "raised", exc |-> exc, val |-> NoMachine]
    /\ stack' = <<>>

InitWalk ==
    /\ LoaderIdle
    /\ PathIdle
    /\ job \in Jobs
    /\ stack = <<NewCall(job.requesting[1], job.requesting[2], NODE_ITEM, 0,
                         NoMachine, NoKey)>>
    /\ crafting_items = <<>>
    /\ machine_nodes = <<>>
    /\ walked = [status |-> "walking", exc |-> NoError, val |-> NoMachine]

\* walk_item_chain is entered: the depth test and the case of source_list
WalkCall ==
    /\ stack # <<>>
    /\ Top.at = "call"
    /\ LET walk_depth == Top.walk_depth + 1
           node_item(found_item) ==
               IF ~found_item.ok
               THEN Raised(found_item) /\ UNCHANGED <<crafting_items, machine_nodes>>
               ELSE LET ci == set_machine_name(
                                  add_provided(crafting_item(crafting_items, found_item.val.item_name),
                                               found_item.val.items_per_minute),
                                  found_item.val.factory)
                        machine == Len(machine_nodes) + 1
                    IN  /\ crafting_items' =
                              put_crafting_item(crafting_items, found_item.val.item_name,
                                  IF Top.item_name = job.requesting[1]
                                  THEN add_required(ci, job.requesting[2])
                                  ELSE ci)
                        /\ machine_nodes' =
                              with_machine(machine_nodes, Top.current_machine,
                                  NewMachine(found_item.val.factory, found_item.val.item_name,
                                             found_item.val.items_per_minute, Top.required_ipm))
                        /\ stack' =
                              Append([stack EXCEPT ![Len(stack)] =
                                         [@ EXCEPT !.at = "return", !.walk_depth = walk_depth,
                                                   !.machine = machine]],
                                     NewCall(Top.item_name, 0, NODE_INPUT, walk_depth,
                                             machine, Top.production_chain_key))
                        /\ UNCHANGED walked
           node_input(found_items) ==
               IF ~found_items.ok
               THEN Raised(found_items) /\ UNCHANGED <<crafting_items, machine_nodes>>
               ELSE /\ stack' = [stack EXCEPT ![Len(stack)] =
                                    [@ EXCEPT !.at = "loop", !.walk_depth = walk_depth,
                                              !.found_items = found_items.val]]
                    /\ UNCHANGED <<crafting_items, machine_nodes, walked>>
           node_raw(fi) ==
               IF ~fi.ok
               THEN Raised(fi) /\ UNCHANGED <<crafting_items, machine_nodes>>
               ELSE /\ crafting_items' =
                          put_crafting_item(crafting_items, fi.val.item_name,
                              set_machine_name(
                                  add_provided(crafting_item(crafting_items, fi.val.item_name),
                                               fi.val.items_per_minute),
                                  fi.val.factory))
                    /\ machine_nodes' =
                          with_machine(machine_nodes, Top.current_machine,
                              NewMachine(fi.val.factory, fi.val.item_name,
                                         fi.val.items_per_minute, Top.required_ipm))
                    /\ stack' = Pop(stack)
                    /\ UNCHANGED walked
       IN  IF walk_depth_exceeded(walk_depth)
           THEN /\ Raised(Raise(ValueError, "Exceeded walk item chain recursion depth.",
                                <<>>, <<>>))
                /\ UNCHANGED <<crafting_items, machine_nodes>>
           ELSE IF Top.source_list = NODE_ITEM
           THEN node_item(find_item(Top.item_name, job.items))
           ELSE IF Top.source_list = NODE_INPUT
           THEN node_input(find_inputs(Top.item_name, job.recipe_inputs))
           ELSE node_raw(find_raw(Top.item_name, "normal", job.raw_items))
    /\ UNCHANGED <<loader_vars, path_vars, job>>

\* case NODE_INPUT: one round of `for fi in found_items`, or its end
WalkLoop ==
    /\ stack # <<>>
    /\ Top.at = "loop"
    /\ IF Top.next > Len(Top.found_items)
       THEN /\ stack' = Pop(stack)
            /\ UNCHANGED <<crafting_items, machine_nodes, walked>>
       ELSE
       LET fi == Top.found_items[Top.next]
           current_machine == Top.current_machine
           existing_key == IF Top.production_chain_key # NoKey
                           THEN Top.production_chain_key ELSE Top.item_name
           existing_ipm ==
               IF existing_key \in DOMAIN job.available_inputs
                  /\ fi.input_name \in DOMAIN job.available_inputs[existing_key]
               THEN job.available_inputs[existing_key][fi.input_name]
               ELSE 0
           pckey == IF Top.production_chain_key = NoKey
                    THEN Join(";", <<Top.item_name, fi.input_name>>)
                    ELSE Join(";", <<Top.production_chain_key, fi.input_name>>)
           \* the machines once the existing input, if any, is added
           provided_for == IF 0 < existing_ipm
                           THEN with_machine(machine_nodes, current_machine,
                                    new_existing_provider_machine(fi.input_name, existing_ipm))
                           ELSE machine_nodes
           round(ratio) ==
               IF ~ratio.ok
               THEN Raised(ratio) /\ UNCHANGED <<crafting_items, machine_nodes>>
               ELSE
               LET required_input_ipm ==
                       fi.required_per_minute * ratio.val
                       - (IF 0 < existing_ipm THEN existing_ipm ELSE 0)
               IN  /\ machine_nodes' = provided_for
                   /\ UNCHANGED walked
                   /\ IF 0 < existing_ipm /\ required_input_ipm <= 0
                      THEN /\ stack' = [stack EXCEPT ![Len(stack)].next = @ + 1]
                           /\ UNCHANGED crafting_items
                      ELSE /\ crafting_items' =
                                 put_crafting_item(crafting_items, fi.input_name,
                                     add_required(crafting_item(crafting_items, fi.input_name),
                                                  required_input_ipm))
                           /\ stack' =
                                 Append([stack EXCEPT ![Len(stack)].next = @ + 1],
                                        NewCall(fi.input_name, required_input_ipm,
                                                IF is_raw(fi.input_name, job.raw_items)
                                                THEN NODE_RAW ELSE NODE_ITEM,
                                                Top.walk_depth, current_machine, pckey))
       IN  round(get_ratio(machine_nodes[current_machine]))
    /\ UNCHANGED <<loader_vars, path_vars, job>>

\* case NODE_ITEM: return machine, once the call for its inputs has returned
WalkReturn ==
    /\ stack # <<>>
    /\ Top.at = "return"
    /\ stack' = Pop(stack)
    /\ walked' = IF Len(stack) = 1
                 THEN [status |-> "returned", exc |-> NoError, val |-> Top.machine]
                 ELSE walked
    /\ UNCHANGED <<loader_vars, path_vars, job, crafting_items, machine_nodes>>

NextWalk ==
    \/ WalkCall
    \/ WalkLoop
    \/ WalkReturn

SpecWalk == InitWalk /\ [][NextWalk]_vars

\* the interpreter goes on running the call under way
SpecWalkFair == SpecWalk /\ WF_vars(NextWalk)

----------------------------------------------------------------------------
(* Properties *)

BaseCatalogue == GameDataDefinitions(BaseItems, BaseRecipeInputs, BaseRawItems)

\* the steps of load_factories_json that have been run
Built == Len(ran) >= 1 /\ ran[1].ok
Pass1Ran == Len(ran) >= 2
Pass2Ran == Len(ran) >= 3
Pass3Ran == Len(ran) >= 4
Finished == pc \in {"returned", "raised"}

\* C1: load_factories_json runs construction, Pass 1, Pass 2 and Pass 3 in
\* this order, each pass only after everything before it succeeded, and
\* nothing after a step that failed; it returns only after Pass 3 succeeded.
C1_PassesInOrder ==
    /\ Len(ran) <= Len(Steps)
    /\ \A i \in DOMAIN ran :
         /\ ran[i].step = Steps[i]
         /\ i < Len(ran) => ran[i].ok
    /\ (pc = "returned") <=> (Len(ran) = Len(Steps) /\ ran[Len(Steps)].ok)
    /\ (pc = "raised") <=> (ran # <<>> /\ ~ran[Len(ran)].ok)

\* Pass 1 succeeded, Pass 2 failed, and the load is over without Pass 3
C1_Witness ==
    /\ pc = "raised"
    /\ Len(ran) = 3
    /\ ran[2].ok
    /\ ~ran[3].ok

\* C2: when a load call fails, the object it was invoked on exposes nothing
\* built from the failed document: its sites and its output index are what
\* they were before the call.
C2_FailedLoadLeavesNoModel ==
    pc = "load_failed" => fd = ran[Len(ran)].before

\* C3: after a load call that succeeded, the sites and the output index of
\* the object are those of the document just loaded alone.
C3_LoadReplacesGraph ==
    pc = "loaded" => fd = load(NewFactoryDefinitions, json_load(doc).val).self

----------------------------------------------------------------------------
(* What a document says, read off the JSON text *)

RECURSIVE Objects(_)
\* the JSON objects of v, v itself included, at every depth
Objects(v) ==
    IF v.t = "obj"
    THEN {v} \cup UNION {Objects(v.p[i][2]) : i \in DOMAIN v.p}
    ELSE IF v.t = "list" THEN UNION {Objects(v.l[i]) : i \in DOMAIN v.l}
    ELSE {}

\* the keys written more than once in the object o
RepeatedKeys(o) ==
    {o.p[i][1] : i \in {i \in DOMAIN o.p :
                          \E j \in DOMAIN o.p : j # i /\ o.p[j][1] = o.p[i][1]}}

RECURSIVE AsDict(_)
\* v with every object made a dict of its members in the order written
AsDict(v) ==
    IF v.t = "obj"
    THEN JDict([i \in DOMAIN v.p |-> <<v.p[i][1], AsDict(v.p[i][2])>>])
    ELSE IF v.t = "list" THEN JList([i \in DOMAIN v.l |-> AsDict(v.l[i])])
    ELSE v

\* the values of the members of v called k, and of all members of v
Children(v, k) ==
    IF v.t # "obj" THEN {}
    ELSE {v.p[i][2] : i \in {i \in DOMAIN v.p : v.p[i][1] = k}}

AllValues(v) == IF v.t # "obj" THEN {} ELSE {v.p[i][2] : i \in DOMAIN v.p}

\* the machine specifications of the document d
MachineSpecs(d) ==
    UNION {AllValues(machines) :
           machines \in UNION {Children(factory, "machines") :
           factory \in UNION {AllValues(factories) :
           factories \in UNION {Children(site, "factories") :
           site \in UNION {AllValues(sites) :
           sites \in Children(d, "sites")}}}}}

\* the specification gives k a value
Defines(spec, k) == \E v \in Children(spec, k) : v.t # "null"

----------------------------------------------------------------------------
(* What a built model holds *)

FactoriesOf(definitions) ==
    UNION {Range(site.factories) : site \in Range(definitions.sites)}

MachinesOf(definitions) ==
    UNION {Range(f.factory_machines) : f \in FactoriesOf(definitions)}

\* the inputs of the machines and storage and the sources of the outputs of
\* the factory f
ConnectionsOf(f) ==
    UNION {Range(m.inputs.l) : m \in {m \in Range(f.factory_machines) :
                                         ~IsNone(m.inputs)}}
    \cup UNION {Range(st.inputs) : st \in Range(f.factory_storage)}
    \cup UNION {Range(o.sources) : o \in Range(f.factory_outputs)}

\* the ids the connection c names under `field`
Refs(c, field) ==
    IF field \notin DOMAIN c \/ IsNone(c[field]) THEN {}
    ELSE {c[field].l[i].s : i \in DOMAIN c[field].l}

\* the ids of the collection of f that `field` refers to
IdsOf(f, field) ==
    CASE field = "from_machine_id" ->
           {m.machine_id : m \in Range(f.factory_machines)}
      [] field = "from_storage_id" ->
           {st.storage_id : st \in Range(f.factory_storage)}
      [] field = "from_factory_input_id" ->
           {in.factory_input_id : in \in Range(f.factory_inputs)}

SourceFields == {"from_machine_id", "from_storage_id", "from_factory_input_id"}

\* the references of the model that name no entity of their own factory:
\* the connection, the field and the id
Dangling(definitions) ==
    UNION {UNION {UNION {{[c |-> c, field |-> field, id |-> id] :
                            id \in Refs(c, field) \ IdsOf(f, field)} :
                         field \in SourceFields} :
                  c \in ConnectionsOf(f)} :
           f \in FactoriesOf(definitions)}

\* the outputs of the model that the triple of the input `in` names
OutputsNamedBy(definitions, in) ==
    UNION {{o \in Range(f.factory_outputs) :
              o.factory_output_id = in.factory_output_id} :
           f \in {f \in FactoriesOf(definitions) :
                    f.site_id = in.site_id /\ f.factory_id = in.factory_id}}

\* the inputs of the model whose triple names no output, with their factory
UnresolvedInputs(definitions) ==
    UNION {{[factory_id |-> f.factory_id, input |-> in] :
              in \in {in \in Range(f.factory_inputs) :
                        OutputsNamedBy(definitions, in) = {}}} :
           f \in FactoriesOf(definitions)}

----------------------------------------------------------------------------
(* Properties of the construction and of Pass 1 and Pass 2 *)

\* C4: when an object of the document has a key written more than once, the
\* load fails with a FactoriesJsonError that lists every repeated key of one
\* such object; a key used again at another nesting level is no repetition;
\* without repetitions every object becomes the dict of its members in the
\* order written.
C4_DuplicateKeyGuard ==
    LET r == json_load(doc)
        repeating == {o \in Objects(doc) : RepeatedKeys(o) # {}}
    IN  /\ repeating # {} =>
              /\ ~r.ok
              /\ r.kind = FJE
              /\ \E o \in repeating : Range(r.args) = RepeatedKeys(o)
              /\ ran # <<>> => ~ran[1].ok /\ err = r /\ pc = "raised"
        /\ repeating = {} => r = Ok(AsDict(doc), <<>>)

\* the load of a document with two keys repeated in one object has failed,
\* naming both
C4_Witness ==
    /\ pc = "raised"
    /\ Len(ran) = 1
    /\ \E o \in Objects(doc) :
         Cardinality(RepeatedKeys(o)) = 2 /\ Range(err.args) = RepeatedKeys(o)

\* C5: every machine of a built model has exactly one of variant and inputs
\* set, and a document with a machine specification that defines both or
\* neither fails in the construction, so that Pass 1 does not run.
C5_VariantXorInputs ==
    /\ Built => \A m \in MachinesOf(fd) : IsNone(m.variant) # IsNone(m.inputs)
    /\ ( /\ ran # <<>>
         /\ \E spec \in MachineSpecs(doc) :
              /\ spec.t = "obj"
              /\ Defines(spec, "variant") <=> Defines(spec, "inputs") )
       => ~ran[1].ok /\ Len(ran) = 1 /\ pc = "raised"

\* a machine specification with both variant and inputs has been rejected
\* as such by the construction
C5_Witness ==
    /\ pc = "raised"
    /\ Len(ran) = 1
    /\ err.msg = "A factory machine may only define either 'variant' or 'inputs' but not both."
    /\ \E spec \in MachineSpecs(doc) :
         Defines(spec, "variant") /\ Defines(spec, "inputs")

----------------------------------------------------------------------------
(* Properties of Pass 3 and of Pass 1 *)

\* the recipe inputs the catalogue lists for an item
RecipeInputsOf(catalogue, item) ==
    {r.input_name : r \in {r \in Range(catalogue.recipe_inputs) :
                             r.item_name = item}}

\* the consumers of the factory f: every connection with the set of items
\* its consumer requires
ConsumersOf(catalogue, f) ==
    UNION {{[c |-> c, required |-> RecipeInputsOf(catalogue, m.item)] :
              c \in Range(m.inputs.l)} :
           m \in {m \in Range(f.factory_machines) : ~IsNone(m.inputs)}}
    \cup UNION {{[c |-> c, required |-> Range(st.items)] :
                   c \in Range(st.inputs)} :
                st \in Range(f.factory_storage)}
    \cup UNION {{[c |-> c, required |-> {o.dispatched_item}] :
                   c \in Range(o.sources)} :
                o \in Range(f.factory_outputs)}

\* the flow rule for one connection c of the factory f
Supplied(definitions, f, c, required) ==
    /\ \A m \in Range(f.factory_machines) :
         m.machine_id \in Refs(c, "from_machine_id") => m.item \in required
    /\ \A st \in Range(f.factory_storage) :
         st.storage_id \in Refs(c, "from_storage_id")
            => Range(st.items) \cap required # {}
    /\ \A in \in Range(f.factory_inputs) :
         in.factory_input_id \in Refs(c, "from_factory_input_id")
            => \A o \in OutputsNamedBy(definitions, in) :
                  o.dispatched_item \in required

FlowRule(definitions, catalogue) ==
    \A f \in FactoriesOf(definitions) :
        \A u \in ConsumersOf(catalogue, f) :
            Supplied(definitions, f, u.c, u.required)

ResolvedItems(definitions, f, x) ==
    {definitions.all_factory_outputs[get_output_key(in)].dispatched_item :
       in \in {in \in Range(f.factory_inputs) : in.factory_input_id = x}}

RawPairs(catalogue) ==
    {<<r.item_name, r.variant>> : r \in Range(catalogue.raw_items)}

ItemNames(catalogue) == {i.item_name : i \in Range(catalogue.items)}

\* the machines Pass 1 has to reject
Offending(definitions, catalogue) ==
    {m \in MachinesOf(definitions) :
        IF ~IsNone(m.variant)
        THEN ~(IsStr(m.variant)
               /\ <<m.item, m.variant.s>> \in RawPairs(catalogue))
        ELSE m.item \notin ItemNames(catalogue)}

----------------------------------------------------------------------------
(* Id uniqueness within the collections of one Factory *)

\* no two elements of the list l have the same value of the attribute id
UniqueIds(l, id(_)) == \A i, j \in DOMAIN l : id(l[i]) = id(l[j]) => i = j

\* C11: appending a machine, input, output or storage whose id equals that
\* of a child already in the same collection of the factory is rejected, so
\* no collection of a factory ever holds two children with the same id
C11_AddRejectsDuplicateId ==
    LET machine_id(m) == m.machine_id
        factory_input_id(i) == i.factory_input_id
        factory_output_id(o) == o.factory_output_id
        storage_id(st) == st.storage_id
    IN  /\ UniqueIds(TheFactory.factory_machines, machine_id)
        /\ UniqueIds(TheFactory.factory_inputs, factory_input_id)
        /\ UniqueIds(TheFactory.factory_outputs, factory_output_id)
        /\ UniqueIds(TheFactory.factory_storage, storage_id)

----------------------------------------------------------------------------
(* Well-formed documents, read off the JSON text *)

\* the keys of a dict in the order written, <<>> for a value that is none
KeysOf(v) == IF v.t = "dict" THEN [i \in DOMAIN v.p |-> v.p[i][1]] ELSE <<>>

\* the (key, value) members of a dict, {} for a value that is none
MembersOf(v) == IF v.t = "dict" THEN Range(v.p) ELSE {}

PopulatedString(v) == v.t = "str" /\ v.s \notin BlankStrings

IntegerFrom(v, lo) == v.t = "int" /\ v.n >= lo

\* a non-empty list of populated strings
IdList(v) == v.t = "list" /\ v.l # <<>> /\ \A i \in DOMAIN v.l : PopulatedString(v.l[i])

\* a non-empty list whose elements satisfy P
ListOfSome(v, P(_)) == v.t = "list" /\ v.l # <<>> /\ \A i \in DOMAIN v.l : P(v.l[i])

\* the ids of the documents loaded that have the separator of the output
\* key in them
StructuralIds == {"o1;x", "f1;o1"}

\* an object whose keys are ids, non-blank and without the separator of the
\* output key, and whose members satisfy P(key, value)
ObjectOf(v, P(_, _)) ==
    /\ v.t = "dict"
    /\ \A m \in MembersOf(v) :
          m[1] \notin BlankStrings \cup StructuralIds /\ P(m[1], m[2])

\* a section that may be left out
OptionalObjectOf(v, P(_, _)) == v.t = "null" \/ ObjectOf(v, P)

\* a source of a machine input (kinds: all three), of a storage input or of
\* an output (kinds: machines and storage)
WellFormedSource(x, kinds) ==
    /\ x.t = "dict"
    /\ \E k \in kinds : Get(x, k).t # "null"
    /\ \A k \in kinds : Get(x, k).t = "null" \/ IdList(Get(x, k))
    /\ \A k \in SourceFields \ kinds : Get(x, k).t = "null"
    /\ IntegerFrom(Get(x, "rate_limit_ipm"), 1)

WellFormedMachine(machine_id, x) ==
    LET MachineInputSource(c) == WellFormedSource(c, SourceFields)
    IN  /\ x.t = "dict"
        /\ PopulatedString(Get(x, "item"))
        /\ \/ /\ PopulatedString(Get(x, "variant"))
              /\ Get(x, "inputs").t = "null"
           \/ /\ Get(x, "variant").t = "null"
              /\ ListOfSome(Get(x, "inputs"), MachineInputSource)

\* a storage whose inputs name sources of the given kinds
WellFormedStorage(kinds, storage_id, x) ==
    LET StorageInput(c) ==
            /\ WellFormedSource(c, kinds)
            /\ Get(c, "from_storage_id").t = "list" =>
                  JStr(storage_id) \notin Range(Get(c, "from_storage_id").l)
    IN  /\ x.t = "dict"
        /\ IdList(Get(x, "items"))
        /\ IntegerFrom(Get(x, "num_stacks"), 1)
        /\ ListOfSome(Get(x, "inputs"), StorageInput)

WellFormedOutput(factory_output_id, x) ==
    LET OutputSource(c) ==
            WellFormedSource(c, {"from_machine_id", "from_storage_id"})
    IN  /\ x.t = "dict"
        /\ PopulatedString(Get(x, "dispatched_item"))
        /\ IntegerFrom(Get(x, "rate_limit_ipm"), 1)
        /\ ListOfSome(Get(x, "sources"), OutputSource)

WellFormedFactory(kinds, site_id, factory_id, x) ==
    LET Storage(storage_id, st) == WellFormedStorage(kinds, storage_id, st)
        Input(factory_input_id, in) ==
            /\ in.t = "dict"
            /\ PopulatedString(Get(in, "site_id"))
            /\ PopulatedString(Get(in, "factory_id"))
            /\ PopulatedString(Get(in, "factory_output_id"))
            /\ ~(Get(in, "site_id").s = site_id
                 /\ Get(in, "factory_id").s = factory_id)
    IN  /\ x.t = "dict"
        /\ PopulatedString(Get(x, "purpose"))
        /\ ObjectOf(Get(x, "machines"), WellFormedMachine)
        /\ OptionalObjectOf(Get(x, "inputs"), Input)
        /\ OptionalObjectOf(Get(x, "outputs"), WellFormedOutput)
        /\ OptionalObjectOf(Get(x, "storage"), Storage)

WellFormedSite(kinds, site_id, x) ==
    LET Factory(factory_id, f) == WellFormedFactory(kinds, site_id, factory_id, f)
    IN  /\ x.t = "dict"
        /\ Get(x, "teleporter").t = "str"
        /\ IntegerFrom(Get(x, "heat_limit"), MinHeatLimit)
        /\ IntegerFrom(Get(x, "heat_current"), 1)
        /\ ObjectOf(Get(x, "factories"), Factory)

\* the document d has the shape of section 3, with storage fed from
\* sources of the given kinds: no key written twice, and every site,
\* factory, machine, storage, input and output as described
WellFormedFedBy(kinds, d) ==
    LET Site(site_id, x) == WellFormedSite(kinds, site_id, x)
    IN  /\ \A o \in Objects(d) : RepeatedKeys(o) = {}
        /\ AsDict(d).t = "dict"
        /\ ObjectOf(Get(AsDict(d), "sites"), Site)

\* section 3: storage is fed from machines and storage
WellFormed(d) == WellFormedFedBy({"from_machine_id", "from_storage_id"}, d)

\* the ids of the objects of a list, in order
IdsIn(l, id(_)) == [i \in DOMAIN l |-> id(l[i])]

\* the ids of the model are the keys of the document d, object by object
\* and in the order written
IdsMatch(definitions, d) ==
    LET site_id(x) == x.site_id
        factory_id(x) == x.factory_id
        machine_id(x) == x.machine_id
        storage_id(x) == x.storage_id
        factory_input_id(x) == x.factory_input_id
        factory_output_id(x) == x.factory_output_id
        sites == Get(AsDict(d), "sites")
        FactoryMatches(f, x) ==
            /\ IdsIn(f.factory_machines, machine_id) = KeysOf(Get(x, "machines"))
            /\ IdsIn(f.factory_inputs, factory_input_id) = KeysOf(Get(x, "inputs"))
            /\ IdsIn(f.factory_outputs, factory_output_id) = KeysOf(Get(x, "outputs"))
            /\ IdsIn(f.factory_storage, storage_id) = KeysOf(Get(x, "storage"))
        SiteMatches(site, x) ==
            /\ IdsIn(site.factories, factory_id) = KeysOf(Get(x, "factories"))
            /\ \A j \in DOMAIN site.factories :
                 /\ site.factories[j].site_id = site.site_id
                 /\ FactoryMatches(site.factories[j], Get(x, "factories").p[j][2])
    IN  /\ IdsIn(definitions.sites, site_id) = KeysOf(sites)
        /\ \A i \in DOMAIN definitions.sites :
             SiteMatches(definitions.sites[i], sites.p[i][2])

----------------------------------------------------------------------------
(* Properties of the construction *)

\* the (key, value) members of a JSON object as written
Pairs(v) == IF v.t = "obj" THEN Range(v.p) ELSE {}

\* the members of the objects that the members of `parents` have under
\* `section`, each with the parent it belongs to
Declared(parents, section) ==
    UNION {{[parent |-> p, id |-> m[1], spec |-> m[2]] :
              m \in UNION {Pairs(x) : x \in Children(p.spec, section)}} :
           p \in parents}

DeclaredSites(d) ==
    Declared({[parent |-> JNull, id |-> "", spec |-> d]}, "sites")

DeclaredFactories(d) == Declared(DeclaredSites(d), "factories")

\* the inputs, storage, ... the document declares, each with its factory
DeclaredIn(d, section) == Declared(DeclaredFactories(d), section)

\* the input names an output of the site and factory that declare it
NamesOwnFactory(in) ==
    /\ JStr(in.parent.parent.id) \in Children(in.spec, "site_id")
    /\ JStr(in.parent.id) \in Children(in.spec, "factory_id")

OwnFactoryMessage ==
    "Factory input specifies a connection to an output within it's own factory."

\* C13: a document in which an input names the site and the factory that
\* declare it fails in the construction, and no input of a built model
\* does; the construction reports a connection to the own factory only for
\* such an input, not for an input that names the same factory_id in
\* another site or another factory of the same site.
C13_InputToOwnFactoryRejected ==
    /\ Built =>
          \A f \in FactoriesOf(fd) : \A in \in Range(f.factory_inputs) :
             ~(in.site_id = f.site_id /\ in.factory_id = f.factory_id)
    /\ (ran # <<>> /\ \E in \in DeclaredIn(doc, "inputs") : NamesOwnFactory(in))
          => ~ran[1].ok /\ Len(ran) = 1 /\ pc = "raised"
    /\ (~err.ok /\ err.msg = OwnFactoryMessage) =>
          /\ Len(ran) = 1
          /\ err.kind = FJE
          /\ \E in \in DeclaredIn(doc, "inputs") :
                NamesOwnFactory(in) /\ err.args = <<in.id>>

\* the construction has rejected the input i1 of f2, which names f2 of its
\* own site
C13_Witness ==
    /\ pc = "raised"
    /\ Len(ran) = 1
    /\ err.msg = OwnFactoryMessage
    /\ \E in \in DeclaredIn(doc, "inputs") :
         NamesOwnFactory(in) /\ err.args = <<in.id>>

\* the storage names itself in the from_storage_id list of one of its inputs
FedByItself(st) ==
    \E inputs \in Children(st.spec, "inputs") :
       inputs.t = "list" /\ \E i \in DOMAIN inputs.l :
          \E ids \in Children(inputs.l[i], "from_storage_id") :
             ids.t = "list" /\ JStr(st.id) \in Range(ids.l)

OwnStorageMessage == "A factory storage may not define itself as an input."

FedFromFactoryInputs(definitions) ==
    UNION {UNION {{[f |-> f, st |-> st, c |-> c] :
                     c \in {c \in Range(st.inputs) :
                              Refs(c, "from_factory_input_id") # {}}} :
                  st \in Range(f.factory_storage)} :
           f \in FactoriesOf(definitions)}

Elements(v) == IF v.t = "list" THEN Range(v.l) ELSE {}

\* the elements of the lists the members of `owners` have under `key`,
\* with the source lists the loader reads from such an element
DeclaredSources(owners, key, kinds) ==
    UNION {{[owner |-> o, kinds |-> kinds, spec |-> e] :
              e \in UNION {Elements(l) : l \in Children(o.spec, key)}} :
           o \in owners}

\* the machine inputs, storage inputs and output sources of the document
DeclaredConnections(d) ==
    DeclaredSources(DeclaredIn(d, "machines"), "inputs", SourceFields)
    \cup DeclaredSources(DeclaredIn(d, "storage"), "inputs", SourceFields)
    \cup DeclaredSources(DeclaredIn(d, "outputs"), "sources",
                         {"from_machine_id", "from_storage_id"})

\* the source lists of the connection that are given (with a value other
\* than null) but are not a non-empty list of non-blank strings
BadSourceLists(c) ==
    {k \in c.kinds : \E v \in Children(c.spec, k) : v.t # "null" /\ ~IdList(v)}

\* the connection gives none of its source lists
WithoutSource(c) == c.spec.t = "obj" /\ \A k \in c.kinds : ~Defines(c.spec, k)

SourceListMessage == "When source is specified, it must be a list of strings."

\* C16: every source list of a machine input, storage input or output
\* source is absent (no key, or null) or a non-empty list of non-blank
\* strings.  A document that gives one as an empty list, as a value that is
\* no list, or as a list with an element that is no string or blank, and a
\* document with a connection that gives no source list at all, fails in
\* the construction; every connection of a built model has at least one
\* source list, and each one it has is a non-empty list of non-blank
\* strings.
C16_SourceListsNonEmpty ==
    /\ Built =>
          \A f \in FactoriesOf(fd) : \A c \in ConnectionsOf(f) :
             /\ \E k \in SourceFields \cap DOMAIN c : ~IsNone(c[k])
             /\ \A k \in SourceFields \cap DOMAIN c : IsNone(c[k]) \/ IdList(c[k])
    /\ ( /\ ran # <<>>
         /\ \E c \in DeclaredConnections(doc) :
              BadSourceLists(c) # {} \/ WithoutSource(c) )
       => ~ran[1].ok /\ Len(ran) = 1 /\ pc = "raised"
    /\ (~err.ok /\ err.msg = SourceListMessage) =>
          /\ err.kind = FJE
          /\ Len(ran) = 1
          /\ \E c \in DeclaredConnections(doc) : err.args[1] \in BadSourceLists(c)

\* the construction has rejected a connection for an empty from_storage_id
\* list given next to a well-formed from_machine_id list
C16_Witness ==
    /\ pc = "raised"
    /\ Len(ran) = 1
    /\ err.msg = SourceListMessage
    /\ err.args[1] = "from_storage_id"
    /\ \E c \in DeclaredConnections(doc) :
         /\ BadSourceLists(c) = {"from_storage_id"}
         /\ JList(<<>>) \in Children(c.spec, "from_storage_id")
         /\ \E v \in Children(c.spec, "from_machine_id") : IdList(v)

OptionalSections == {"inputs", "outputs", "storage"}

\* the collection of the factory f that is built of the section
CollectionOf(f, section) ==
    CASE section = "machines" -> f.factory_machines
      [] section = "inputs" -> f.factory_inputs
      [] section = "outputs" -> f.factory_outputs
      [] section = "storage" -> f.factory_storage

\* the factory of the model built of the declared factory x
BuiltOf(definitions, x) ==
    {f \in FactoriesOf(definitions) :
        f.site_id = x.parent.id /\ f.factory_id = x.id}

\* the factory specification gives the section a value that is no object
WronglyTyped(x, section) ==
    \E v \in Children(x.spec, section) : v.t \notin {"null", "obj"}

SectionMessage(section) ==
    "JSON optional entry value isn't a valid dict, for value of entry '"
        \o section \o "'."

\* C17: in a built model a factory has no inputs, outputs or storage where
\* its specification leaves the section out (no key, or null), and the
\* sections that follow are built all the same; a document in which a
\* factory gives one of the three sections a value that is no object, or
\* in which its machines are not an object, fails in the construction; the
\* construction reports a section as no valid dict only when it is given
\* and no object.
C17_OptionalSections ==
    /\ Built =>
          \A x \in DeclaredFactories(doc) : \A f \in BuiltOf(fd, x) :
             /\ \A section \in OptionalSections :
                  ~Defines(x.spec, section) => CollectionOf(f, section) = <<>>
             /\ \A section \in OptionalSections \cup {"machines"} :
                  \A v \in Children(x.spec, section) :
                     v.t = "obj" =>
                        Len(CollectionOf(f, section)) = Len(v.p)
    /\ ( /\ ran # <<>>
         /\ \E x \in DeclaredFactories(doc) :
              \/ \E section \in OptionalSections : WronglyTyped(x, section)
              \/ x.spec.t = "obj" /\ \A v \in Children(x.spec, "machines") : v.t # "obj" )
       => ~ran[1].ok /\ Len(ran) = 1 /\ pc = "raised"
    /\ \A section \in OptionalSections :
          (~err.ok /\ err.msg = SectionMessage(section)) =>
             /\ err.kind = FJE
             /\ Len(ran) = 1
             /\ \E x \in DeclaredFactories(doc) : WronglyTyped(x, section)

\* a factory without an outputs section is built: it has no outputs, and
\* the storage written after the missing section is there
C17_Witness ==
    /\ Built
    /\ \E x \in DeclaredFactories(doc) : \E f \in BuiltOf(fd, x) :
         /\ ~Defines(x.spec, "outputs")
         /\ f.factory_outputs = <<>>
         /\ Defines(x.spec, "storage")
         /\ f.factory_storage # <<>>

\* C18: there is one error kind: whatever the document, with values of
\* another type where an object is expected or with required keys missing,
\* a load that fails in the construction fails with a FactoriesJsonError.
C18_OneErrorKind ==
    (pc = "raised" /\ Len(ran) = 1) => err.kind = FJE

----------------------------------------------------------------------------
(* The JSON path of the errors of the construction *)

\* the length of the path from "sites" to the node an error of the
\* construction is about, by its message: the document (1), a site (2), its
\* factories (3), a factory (4), one of its sections (5), a machine, input,
\* output or storage (6), its inputs or sources (7)
NodeDepths(msg) ==
    CASE msg \in {"JSON missing root level 'sites' entry.",
                  "JSON mandatory site ID entry invalid."} -> {1}
      [] msg \in {"JSON mandatory entry missing or not a string: 'teleporter'.",
                  "JSON mandatory entry missing or not a valid int: 'heat_limit'.",
                  "JSON mandatory entry missing or not a valid int: 'heat_current'.",
                  "JSON mandatory entry missing or not a valid dict: 'factories'."} -> {2}
      [] msg = "JSON mandatory factory ID entry invalid." -> {3}
      [] msg \in {"JSON mandatory entry missing or not a populated string: 'purpose'.",
                  "JSON mandatory entry missing or not a valid dict: 'machines'."}
                 \cup {SectionMessage(section) : section \in OptionalSections} -> {4}
      [] msg \in {"JSON mandatory machine ID entry invalid.",
                  "JSON mandatory factory input ID entry invalid.",
                  "JSON mandatory factory output ID entry invalid.",
                  "JSON mandatory factory storage ID entry invalid."} -> {5}
      [] msg \in {"A factory machine must define an 'item'.",
                  "A factory machine may only define either 'variant' or 'inputs' but not both.",
                  "A factory machine must define at least one of 'variant' or 'inputs'.",
                  "When 'inputs' is specified for a factory machine, is must be a non-empty list.",
                  "A factory storage must define 'items' as a non-empty list.",
                  "A factory storage must define 'items' as a list of non-empty strings.",
                  "A factory storage must specify the 'num_stacks'.",
                  "A factory storage must define 'inputs' as a non-empty list.",
                  "A factory input must define a 'site_id'.",
                  "A factory input must define a 'factory_id'.",
                  "A factory input must define a 'factory_output_id'.",
                  OwnFactoryMessage,
                  "A factory output must define a 'dispatched_item'.",
                  "A factory output must define a 'rate_limit_ipm'.",
                  "A factory output must define 'sources' as a non-empty list."} -> {6}
      [] msg = OwnStorageMessage -> {6, 7}
      [] msg \in {"A factory machine input must specify at least one source.",
                  "A factory machine input must specify the 'rate_limit_ipm'.",
                  "A factory output source must specify at least one source.",
                  "A factory output source must define 'rate_limit_ipm'.",
                  SourceListMessage} -> {7}
      [] OTHER -> {}

RECURSIVE Follows(_, _)
\* the keys lead from the JSON value v down to a node of the document
Follows(v, keys) ==
    \/ keys = <<>>
    \/ \E c \in Children(v, Head(keys)) : Follows(c, Tail(keys))

\* C19: an error raised in the construction carries the path of the node
\* it is about: the keys from "sites" down to that node, which lead to a
\* node of the document, and nothing more; no key of a site, factory or
\* section handled before is left at its end.
C19_ErrorPathOfOffendingNode ==
    (pc = "raised" /\ Len(ran) = 1 /\ NodeDepths(err.msg) # {}) =>
        /\ Len(err.path) \in NodeDepths(err.msg)
        /\ Follows(doc, err.path) \/ err.path = <<"sites">>

\* C20: the variant of a machine, when set, is a non-blank string: a
\* document with a machine whose variant is an empty or blank string, or
\* no string, fails in the construction, and no machine of a built model
\* has such a variant.
C20_VariantNonEmptyString ==
    /\ Built =>
          \A m \in MachinesOf(fd) :
             IsNone(m.variant) \/ PopulatedString(m.variant)
    /\ ( /\ ran # <<>>
         /\ \E spec \in MachineSpecs(doc) : \E v \in Children(spec, "variant") :
              v.t # "null" /\ ~PopulatedString(v) )
       => ~ran[1].ok /\ pc = "raised"

----------------------------------------------------------------------------
(* The path captured in each object of a built model *)

\* the keys from the root of the document down to the node of a site, of a
\* factory, and of the child `entity_id` of a section of a factory
SitePath(site) == <<"sites", site.site_id>>

FactoryPath(site, f) == SitePath(site) \o <<"factories", f.factory_id>>

ChildPath(site, f, section, entity_id) ==
    FactoryPath(site, f) \o <<section, entity_id>>

\* every child of the factory f in the list `children` holds the path of its
\* own node in `section`
ChildrenHoldOwnPath(site, f, section, children, id(_)) ==
    \A i \in DOMAIN children :
       children[i].json_path = ChildPath(site, f, section, id(children[i]))

\* C21: the path captured in every Site, Factory, Machine, Storage, Input
\* and Output of a built model is the key sequence of its own JSON node:
\* sites, site id; then factories, factory id; then the section and the
\* child's id; and no segment after that.
C21_CapturedPathIsOwnNode ==
    Built =>
      \A site \in Range(fd.sites) :
         /\ site.json_path = SitePath(site)
         /\ \A f \in Range(site.factories) :
              /\ f.json_path = FactoryPath(site, f)
              /\ ChildrenHoldOwnPath(site, f, "machines", f.factory_machines,
                                     LAMBDA m : m.machine_id)
              /\ ChildrenHoldOwnPath(site, f, "inputs", f.factory_inputs,
                                     LAMBDA in : in.factory_input_id)
              /\ ChildrenHoldOwnPath(site, f, "outputs", f.factory_outputs,
                                     LAMBDA o : o.factory_output_id)
              /\ ChildrenHoldOwnPath(site, f, "storage", f.factory_storage,
                                     LAMBDA st : st.storage_id)

----------------------------------------------------------------------------
(* The chain of a JsonPath *)

RECURSIVE ChainFrom(_, _, _)
\* the nodes met from `current` on by following next, up to None or to a
\* node met before
ChainFrom(nodes, current, seen) ==
    IF current = NoNode \/ current \in seen THEN <<>>
    ELSE <<current>> \o ChainFrom(nodes, nodes[current].next, seen \cup {current})

\* the nodes on the chain from the root, in order
Chain(json_path) == ChainFrom(json_path.nodes, get_path_head(json_path), {})

\* the path ids of the nodes on the chain from the root
RootPathOf(json_path) ==
    LET chain == Chain(json_path)
    IN  [i \in DOMAIN chain |-> json_path.nodes[chain[i]].path_id]

\* the depth of the handle on the chain from the root; 0 when it is detached
DepthOf(json_path, self) ==
    LET chain == Chain(json_path)
    IN  IF \E i \in DOMAIN chain : chain[i] = self
        THEN CHOOSE i \in DOMAIN chain : chain[i] = self
        ELSE 0

\* a call of `op` has just been made on the JsonPath or one of its nodes
Returned(op) == ret.op = op /\ ret.exc.ok

\* C22: rendering a handle that is on the chain from the root of a living
\* JsonPath gives the segments from the root down to that handle and none
\* of the segments below it: get_path_array the list of them, get_path_str
\* the list joined with the separator.
C22_RenderEndsAtHandle ==
    LET d == DepthOf(jp, ret.self)
        segments == SubSeq(RootPathOf(jp), 1, d)
    IN  /\ (Returned("get_path_array") /\ jp.alive /\ d > 0) =>
              ret.val = segments
        /\ (Returned("get_path_str") /\ jp.alive /\ d > 0) =>
              ret.val = Join(PathSeparator, segments)

\* C23: set_next(s) on a handle at depth d of the chain from the root
\* leaves the root path as its first d segments followed by s, whatever
\* hung below the handle before, so that going through sibling keys with
\* one parent handle never piles up segments; truncate on such a handle
\* leaves the first d segments.  JsonPath.set_next is set_next on the head.
C23_SetNextIsTruncateThenDescend ==
    LET d == DepthOf(ret.before, ret.self)
        before == RootPathOf(ret.before)
    IN  /\ ((Returned("set_next") \/ Returned("JsonPath.set_next")) /\ d > 0) =>
              /\ RootPathOf(jp) = SubSeq(before, 1, d) \o <<ret.path_id>>
              /\ RootPathOf(jp) = set_next(before, d, ret.path_id)
              /\ DepthOf(jp, ret.val) = d + 1
        /\ (Returned("truncate") /\ d > 0) =>
              /\ RootPathOf(jp) = SubSeq(before, 1, d)
              /\ RootPathOf(jp) = truncate(before, d)
              /\ ret.val = ret.self

\* set_next has replaced a sibling that had a child of its own: the chain
\* below the parent handle was two nodes long and is one node long now
C23_Witness ==
    /\ Returned("set_next")
    /\ DepthOf(ret.before, ret.self) = 1
    /\ Len(RootPathOf(ret.before)) = 3
    /\ RootPathOf(jp) = <<RootPath, ret.path_id>>

\* C24: on a handle whose JsonPath has been collected, rendering does not
\* raise and gives the empty string (get_path_str) and the empty list
\* (get_path_array); making a FactoriesJsonError with such a handle does
\* not raise either and gives the message with an empty path; truncate
\* does not raise.
C24_RenderOnCollectedPathIsEmpty ==
    (ret # NoCall /\ ~ret.before.alive) =>
       /\ ret.op = "get_path_str" => ret.exc.ok /\ ret.val = ""
       /\ ret.op = "get_path_array" => ret.exc.ok /\ ret.val = <<>>
       /\ ret.op = "FactoriesJsonError" =>
             /\ ret.exc.ok
             /\ ret.val = "JSON missing root level 'sites' entry.\nJSON path: "
       /\ ret.op = "truncate" => ret.exc.ok

\* a handle that was at depth 3 of the chain is rendered after the JsonPath
\* was collected
C24_Witness ==
    /\ ~jp.alive
    /\ Returned("get_path_str")
    /\ ret.val = ""
    /\ DepthOf(jp, ret.self) = 3

\* C29: whatever set_next and truncate calls were made, on handles on the
\* chain or cut off it, the chain from the root ends at a node without a
\* next and meets no node twice, it starts with the root segment, and
\* get_path_array returns it; a set_next or truncate on a handle that is
\* not on the chain leaves the root path as it was.
C29_ChainIsFiniteAndRooted ==
    LET chain == Chain(jp)
    IN  /\ jp.nodes[chain[Len(chain)]].next = NoNode
        /\ Len(chain) <= Len(jp.nodes)
        /\ RootPathOf(jp)[1] = RootPath
        /\ JsonPath_get_path_array(jp) = RootPathOf(jp)
        /\ (ret.op \in {"set_next", "truncate"}
              /\ DepthOf(ret.before, ret.self) = 0) =>
              RootPathOf(jp) = RootPathOf(ret.before)

\* set_next was called on a handle that had been cut off the chain, while
\* the chain was two nodes long
C29_Witness ==
    /\ Returned("set_next")
    /\ DepthOf(ret.before, ret.self) = 0
    /\ Len(Chain(jp)) = 2
    /\ jp.nodes[ret.self].next = ret.val

----------------------------------------------------------------------------
(* The index of the factory outputs *)

\* the (site_id, factory_id, factory_output_id) of the outputs of a model
OutputTriples(definitions) ==
    LET outs == visit_all_factory_outputs(definitions.sites)
    IN  [i \in DOMAIN outs |->
           <<outs[i].factory.site_id, outs[i].factory.factory_id,
             outs[i].output.factory_output_id>>]

DuplicateOutputMessage == "Factory output ID is duplicate within factory and site."

\* C25: the key site_id;factory_id;output_id stands for one output: two
\* outputs that the construction accepted with different (site_id,
\* factory_id, output_id) never get the same key, so indexing the outputs
\* never reports a duplicate, and the index of a built model has one entry
\* for each output.
C25_OutputKeyIdentifiesOneOutput ==
    /\ ~(pc = "raised" /\ Len(ran) = 1 /\ err.kind = FJE
           /\ err.msg = DuplicateOutputMessage)
    /\ Built =>
          LET triples == OutputTriples(fd)
          IN  /\ \A i, j \in DOMAIN triples :
                   triples[i] # triples[j] =>
                      make_factory_output_key(triples[i][1], triples[i][2], triples[i][3])
                      # make_factory_output_key(triples[j][1], triples[j][2], triples[j][3])
              /\ Cardinality(DOMAIN fd.all_factory_outputs) = Len(triples)

----------------------------------------------------------------------------
(* The order in which sites and factories are declared *)

\* the lists with the elements of s in every order
Orders(s) == {[i \in DOMAIN s |-> s[f[i]]] : f \in Permutations(DOMAIN s)}

\* the object v with the member k replaced by val
WithMember(v, k, val) ==
    JObj([i \in DOMAIN v.p |-> IF v.p[i][1] = k THEN <<k, val>> ELSE v.p[i]])

\* the member k of the object v as written
Member(v, k) == v.p[CHOOSE i \in DOMAIN v.p : v.p[i][1] = k][2]

RECURSIVE FactoriesReordered(_)
\* the lists of (site_id, site) with the factories of each site in every
\* order and the sites in the order given
FactoriesReordered(sites) ==
    IF sites = <<>> THEN {<<>>}
    ELSE LET site_id == Head(sites)[1]
             site == Head(sites)[2]
         IN  { <<<<site_id, WithMember(site, "factories", JObj(factories))>>>> \o rest :
                 factories \in Orders(Member(site, "factories").p),
                 rest \in FactoriesReordered(Tail(sites)) }

\* the documents that declare the sites of d, and the factories of each of
\* its sites, in another order or the same
Reordered(d) ==
    { WithMember(d, "sites", JObj(sites)) :
        sites \in UNION {Orders(fr) : fr \in FactoriesReordered(Member(d, "sites").p)} }

\* for each input of the model, by site, factory and id: the output that the
\* index gives for its key, or JNull when the key is not in the index
Resolution(definitions) ==
    LET ins == AllFactoryInputs(definitions.sites)
    IN  { LET in == ins[i].factory_input
              key == get_output_key(in)
          IN  <<ins[i].factory.site_id, ins[i].factory.factory_id,
                in.factory_input_id,
                IF key \in DOMAIN definitions.all_factory_outputs
                THEN definitions.all_factory_outputs[key]
                ELSE JNull>> :
          i \in DOMAIN ins }

\* the site of the model that declares the factory f comes before the site
\* that declares the output the input `in` names
DeclaredLater(definitions, f, in) ==
    \E i, j \in DOMAIN definitions.sites :
       /\ i < j
       /\ definitions.sites[i].site_id = f.site_id
       /\ definitions.sites[j].site_id = in.site_id

\* C26: the links from inputs to outputs are resolved once the whole tree
\* is built, so the outcome does not depend on the order of declaration:
\* a document with the sites, or the factories of a site, of a built
\* document in another order is built too, each of its inputs resolves to
\* the same output or to none as before, and Pass 2 accepts it exactly when
\* it accepted the document.
C26_ResolutionIsOrderIndependent ==
    (Len(ran) = 3 /\ Built) =>
       \A d \in Reordered(doc) :
          LET same(r) ==
                  /\ r.ok
                  /\ Resolution(r.val) = Resolution(fd)
                  /\ UnresolvedInputs(r.val) = UnresolvedInputs(fd)
                  /\ validate_connections_exist(r.val).ok = ran[3].ok
          IN  same(read_factories_json(d))

\* Pass 2 has accepted a model in which an input of site s1 resolves to an
\* output of a site declared after s1
C26_Witness ==
    /\ Len(ran) = 3
    /\ ran[3].ok
    /\ Len(fd.sites) = 2
    /\ \E f \in FactoriesOf(fd) : \E in \in Range(f.factory_inputs) :
         /\ DeclaredLater(fd, f, in)
         /\ get_output_key(in) \in DOMAIN fd.all_factory_outputs

----------------------------------------------------------------------------
(* What Pass 3 may end with *)

----------------------------------------------------------------------------
(* What the validation passes leave behind *)

Entered == {i \in DOMAIN stack : stack[i].at # "call"}

\* the walk has ended: walk_item_chain returned to main or raised
WalkEnded == walked.status \in {"returned", "raised"}

DepthError ==
    Raise(ValueError, "Exceeded walk item chain recursion depth.", <<>>, <<>>)

\* walk_depth counts the nested calls, and no call past the depth test is
\* nested deeper than MAX_WALK_DEPTH
WithinWalkDepth ==
    /\ \A i \in Entered : stack[i].walk_depth = i /\ i <= MAX_WALK_DEPTH
    /\ \A i \in DOMAIN stack : i \notin Entered => i = Len(stack)
    /\ Len(stack) <= MAX_WALK_DEPTH + 1

\* a call nested deeper than MAX_WALK_DEPTH ends the walk with the error
DeeperCallRaises ==
    MAX_WALK_DEPTH < Len(stack) =>
        /\ stack' = <<>>
        /\ walked'.status = "raised"
        /\ walked'.exc = DepthError

\* C30: walk_item_chain terminates for every catalogue, also when the
\* inputs of a recipe lead back to an item already on the chain: no call
\* past the depth test is nested deeper than MAX_WALK_DEPTH (100), the
\* call that would be the next one raises ValueError and ends the walk,
\* and every walk ends, by returning to main or by raising.
C30_WalkEndsWithinDepth ==
    /\ []WithinWalkDepth
    /\ [][DeeperCallRaises]_vars
    /\ <>WalkEnded

\* a walk of recipes that lead back to an item on the chain has made
\* MAX_WALK_DEPTH nested calls and was ended by the depth error
C30_Witness ==
    /\ walked.status = "raised"
    /\ walked.exc = DepthError
    /\ \E i \in DOMAIN job.recipe_inputs :
           job.recipe_inputs[i].input_name = job.requesting[1]
    /\ Len(machine_nodes) >= MAX_WALK_DEPTH \div 2

====
